---- MODULE Spec2Model ----
(***************************************************************************)
(* The asset-graph layout worker of asset-graph-layout-v2:                 *)
(*   - GraphProcessor (worker/GraphPreprocessor.ts): input graph ->        *)
(*     ModelGraph (nodes, edges, layout connections, large-group split,    *)
(*     descendants and counts);                                            *)
(*   - the worker's message listener, its handlers and MODEL_GRAPHS_CACHE. *)
(*                                                                         *)
(* Representation.  A JS string is a TLA+ string.  An optional field is a  *)
(* sequence: <<>> is undefined, <<v>> is the value v.  An optional array   *)
(* that the code only ever reads through `x || []` is a sequence, <<>>     *)
(* standing for both undefined and [].  Objects that the code aliases      *)
(* (the nodes of a model graph, reachable through nodes, nodesById and     *)
(* rootNodes; the model graphs, reachable through the cache) are kept in   *)
(* a table and referred to by their index in it.                           *)
(***************************************************************************)
EXTENDS Integers, Sequences, FiniteSets, TLC

VARIABLES
  MODEL_GRAPHS_CACHE, \* key -> reference of the cached ModelGraph
  heap,               \* reference -> ModelGraph (the live, mutable objects)
  lastEvent,          \* the message most recently delivered to the listener
  posted,             \* what the listener posted while handling lastEvent
  uncaught,           \* the error that escaped the listener, or <<>>
  collaborator,       \* what became of the collaborator call for lastEvent
  input,              \* GraphProcessor run: the input graph
  built,              \* GraphProcessor run: the model graph so far
  phase,              \* GraphProcessor run: the next phase of process()
  threshold,          \* GraphProcessor run: the threshold field
  preExpand,          \* the expand request under way and the graph before it
  inbox,              \* event loop: the message events queued for the listener
  running,            \* event loop: the listener calls that have not returned
  outbox,             \* event loop: the messages posted, each with its request
  delivered           \* event loop: the number of messages delivered so far

vars ==
  <<MODEL_GRAPHS_CACHE, heap, lastEvent, posted, uncaught, collaborator, input, built, phase,
    threshold, preExpand, inbox, running, outbox, delivered>>

workerVars == <<MODEL_GRAPHS_CACHE, heap, lastEvent, posted, uncaught, collaborator>>

processorVars == <<input, built, phase, threshold, preExpand>>

listenerVars == <<inbox, running, outbox, delivered>>

-----------------------------------------------------------------------------
(* Bounds of the model. *)

\* Largest number of nodes of an input graph given to a GraphProcessor run.
MaxNodes == 2

\* Largest number of upstream keys of one node of such an input graph.
MaxUpstream == 2

\* Largest number of asset nodes of a model graph given to splitLargeGroupNodes.
MaxAssets == 5

\* Largest number of nested calls the call stack holds.
MaxCallStack == 12

\* Largest number of messages delivered to the worker's event loop.
MaxDelivered == 3

\* Largest number of asset nodes of a model graph given to the expand and
\* collapse handlers.
MaxHandlerAssets == 2

-----------------------------------------------------------------------------
(* Optional values and small helpers. *)

Undefined == <<>>

Some(v) == <<v>>

Range(s) == {s[i] : i \in DOMAIN s}

\* f[k] = v, other keys as in f (a JS property assignment on a Record).
Put(f, k, v) == (k :> v) @@ f

\* delete f[k]
Delete(f, k) == [x \in (DOMAIN f) \ {k} |-> f[x]]

\* The empty Record {}.
EmptyRecord == <<>>

\* The sequences of distinct elements of S of length at most n.
RECURSIVE DistinctSeqs(_, _)
DistinctSeqs(S, n) ==
  IF n = 0 THEN {<<>>}
  ELSE LET shorter == DistinctSeqs(S, n - 1)
       IN shorter \cup
          {Append(p[1], p[2]) :
             p \in {q \in shorter \X S : Len(q[1]) = n - 1 /\ q[2] \notin Range(q[1])}}

-----------------------------------------------------------------------------
(* common/ModelGraph.ts: the graph model. *)

ASSET_NODE == "ASSET_NODE"

GROUP_NODE == "GROUP_NODE"

\* The fields of ModelNodeBase, AssetNode and GroupNode, none of them set.
\* Geometry is kept as width and height, the two fields the handlers clear.
ModelNode ==
  [nodeType |-> ASSET_NODE, namespace |-> "", id |-> "", parentId |-> Undefined,
   level |-> 0, width |-> Undefined, height |-> Undefined,
   incomingEdges |-> <<>>, outgoingEdges |-> <<>>, hideInLayout |-> FALSE,
   childrenIds |-> <<>>, descendantsNodeIds |-> <<>>,
   descendantsAssetNodeIds |-> <<>>, expanded |-> FALSE,
   sectionContainer |-> FALSE]

Edge(sourceNodeId, targetNodeId) ==
  [sourceNodeId |-> sourceNodeId, targetNodeId |-> targetNodeId]

\* common/utils isAssetNode / isGroupNode; node is an optional node.
isAssetNode(node) == node # Undefined /\ node[1].nodeType = ASSET_NODE

isGroupNode(node) == node # Undefined /\ node[1].nodeType = GROUP_NODE

\* modelGraph.nodesById[id]: the node object (its index in nodes), optional.
nodeRef(modelGraph, id) ==
  IF id \in DOMAIN modelGraph.nodesById THEN Some(modelGraph.nodesById[id])
  ELSE Undefined

\* modelGraph.nodesById[id]: the node itself, optional.
nodeById(modelGraph, id) ==
  IF id \in DOMAIN modelGraph.nodesById
  THEN Some(modelGraph.nodes[modelGraph.nodesById[id]])
  ELSE Undefined

-----------------------------------------------------------------------------
(* common/WorkerEvents.ts: labels, event types, progress notification. *)

PROCESSING_NODES_AND_EDGES == "Processing nodes and edges"

PROCESSING_LAYOUT_DATA == "Processing layout data"

SPLITTING_LARGE_LAYERS == "Splitting large layers (if any)"

LAYING_OUT_ROOT_LAYER == "Laying out root layer"

ALL_PROCESSING_LABELS ==
  <<PROCESSING_NODES_AND_EDGES, PROCESSING_LAYOUT_DATA, SPLITTING_LARGE_LAYERS,
    LAYING_OUT_ROOT_LAYER>>

PROCESS_GRAPH_REQ == "PROCESS_GRAPH_REQ"

PROCESS_GRAPH_RESP == "PROCESS_GRAPH_RESP"

EXPAND_OR_COLLAPSE_GROUP_NODE_REQ == "EXPAND_OR_COLLAPSE_GROUP_NODE_REQ"

EXPAND_OR_COLLAPSE_GROUP_NODE_RESP == "EXPAND_OR_COLLAPSE_GROUP_NODE_RESP"

RELAYOUT_GRAPH_REQ == "RELAYOUT_GRAPH_REQ"

RELAYOUT_GRAPH_RESP == "RELAYOUT_GRAPH_RESP"

UPDATE_PROCESSING_PROGRESS == "UPDATE_PROCESSING_PROGRESS"

CLEANUP == "CLEANUP"

\* updateProcessingProgress with graphId and label taken in the other order.
updateProcessingProgressSwapped(graphId, label, error) ==
  [eventType |-> UPDATE_PROCESSING_PROGRESS, graphId |-> label,
   label |-> graphId, error |-> error]

\* worker/workerUtil.ts: the message updateProcessingProgress posts.
updateProcessingProgress(graphId, label, error) ==
  [eventType |-> UPDATE_PROCESSING_PROGRESS, graphId |-> graphId,
   label |-> label, error |-> error]

-----------------------------------------------------------------------------
(* The input graph (GraphData of asset-graph/Utils): nodes is the sequence *)
(* Object.values(graph.nodes), each node with its id and its group;        *)
(* upstream maps a node id to the sequence Object.keys(upstream[id]).      *)

GraphNode(id, group) == [id |-> id, group |-> group]

GraphData(nodes, upstream) == [nodes |-> nodes, upstream |-> upstream]

\* groupIdForNode of asset-graph/Utils: the id of the group of a node.
groupIdForNode(graphNode) == graphNode.group

-----------------------------------------------------------------------------
(* worker/GraphPreprocessor.ts: GraphProcessor. *)

\* The threshold a GraphProcessor gets when its caller passes none.
DEFAULT_GROUP_NODE_CHILDREN_COUNT_THRESHOLD == 2

createEmptyModelGraph ==
  [id |-> "<ROOT>", nodes |-> <<>>, nodesById |-> EmptyRecord,
   rootNodes |-> <<>>, artificialGroupNodeIds |-> <<>>,
   edgesByGroupNodeIds |-> EmptyRecord, layoutGraphEdges |-> EmptyRecord,
   minDescendantAssetNodeCount |-> -1, maxDescendantAssetNodeCount |-> -1]

\* modelGraph.nodes.push(node); modelGraph.nodesById[node.id] = node
pushNode(modelGraph, node) ==
  [modelGraph EXCEPT !.nodes = Append(@, node),
                     !.nodesById = Put(@, node.id, Len(modelGraph.nodes) + 1)]

\* The loop of processNodes from the i-th input node on.
RECURSIVE processNodesFrom(_, _, _, _, _)
processNodesFrom(modelGraph, graph, flattenLayers, i, seenGroups) ==
  IF i > Len(graph.nodes) THEN modelGraph
  ELSE
    LET graphNode == graph.nodes[i]
        group == groupIdForNode(graphNode)
        assetNode == [ModelNode EXCEPT !.nodeType = ASSET_NODE,
                                       !.id = graphNode.id,
                                       !.level = 1,
                                       !.namespace = group \o "/" \o graphNode.id]
        withAsset == pushNode(modelGraph, assetNode)
        newGroup == /\ ~assetNode.hideInLayout
                    /\ ~flattenLayers
                    /\ group \notin seenGroups
        groupNode == [ModelNode EXCEPT !.nodeType = GROUP_NODE,
                                       !.id = group,
                                       !.level = 0,
                                       !.expanded = FALSE,
                                       !.namespace = group]
    IN processNodesFrom(IF newGroup THEN pushNode(withAsset, groupNode) ELSE withAsset,
                        graph, flattenLayers, i + 1,
                        IF newGroup THEN seenGroups \cup {group} ELSE seenGroups)

\* processNodes with the test of flattenLayers inverted.
processNodesFlattened(modelGraph, graph, flattenLayers) ==
  processNodesFrom(modelGraph, graph, ~flattenLayers, 1, {})

processNodes(modelGraph, graph, flattenLayers) ==
  processNodesFrom(modelGraph, graph, flattenLayers, 1, {})

\* processEdge with the outgoing edges searched by sourceNodeId instead of
\* targetNodeId.
processEdgeFindsBySource(modelGraph, graphNodeId, sourceNodeId) ==
  LET node == modelGraph.nodesById[graphNodeId]
      incomingEdge == Edge(sourceNodeId, graphNodeId)
  IN IF nodeRef(modelGraph, sourceNodeId) = Undefined THEN modelGraph
     ELSE
       LET sourceNode == modelGraph.nodesById[sourceNodeId]
           withIncoming ==
             IF \E k \in DOMAIN modelGraph.nodes[node].incomingEdges :
                  modelGraph.nodes[node].incomingEdges[k].sourceNodeId = sourceNodeId
             THEN modelGraph
             ELSE [modelGraph EXCEPT !.nodes[node].incomingEdges =
                                        Append(@, incomingEdge)]
           nodeId == withIncoming.nodes[node].id
       IN IF \E k \in DOMAIN withIncoming.nodes[sourceNode].outgoingEdges :
               withIncoming.nodes[sourceNode].outgoingEdges[k].sourceNodeId = sourceNodeId
          THEN withIncoming
          ELSE [withIncoming EXCEPT !.nodes[sourceNode].outgoingEdges =
                                       Append(@, Edge(incomingEdge.sourceNodeId, nodeId))]

\* One iteration of the inner loop of processEdgeRelationships: the upstream
\* key sourceNodeId of the input node graphNodeId.
processEdge(modelGraph, graphNodeId, sourceNodeId) ==
  LET node == modelGraph.nodesById[graphNodeId]
      incomingEdge == Edge(sourceNodeId, graphNodeId)
  IN IF nodeRef(modelGraph, sourceNodeId) = Undefined THEN modelGraph
     ELSE
       LET sourceNode == modelGraph.nodesById[sourceNodeId]
           withIncoming ==
             IF \E k \in DOMAIN modelGraph.nodes[node].incomingEdges :
                  modelGraph.nodes[node].incomingEdges[k].sourceNodeId = sourceNodeId
             THEN modelGraph
             ELSE [modelGraph EXCEPT !.nodes[node].incomingEdges =
                                        Append(@, incomingEdge)]
           nodeId == withIncoming.nodes[node].id
       IN IF \E k \in DOMAIN withIncoming.nodes[sourceNode].outgoingEdges :
               withIncoming.nodes[sourceNode].outgoingEdges[k].targetNodeId = nodeId
          THEN withIncoming
          ELSE [withIncoming EXCEPT !.nodes[sourceNode].outgoingEdges =
                                       Append(@, Edge(incomingEdge.sourceNodeId, nodeId))]

\* The inner loop of processEdgeRelationships from the j-th upstream key on.
RECURSIVE processIncomingEdgesFrom(_, _, _, _)
processIncomingEdgesFrom(modelGraph, graphNodeId, incomingEdges, j) ==
  IF j > Len(incomingEdges) THEN modelGraph
  ELSE processIncomingEdgesFrom(
         processEdge(modelGraph, graphNodeId, incomingEdges[j]),
         graphNodeId, incomingEdges, j + 1)

\* The outer loop of processEdgeRelationships from the i-th input node on.
RECURSIVE processEdgeRelationshipsFrom(_, _, _)
processEdgeRelationshipsFrom(modelGraph, graph, i) ==
  IF i > Len(graph.nodes) THEN modelGraph
  ELSE
    LET graphNode == graph.nodes[i]
        incomingEdges == IF graphNode.id \in DOMAIN graph.upstream
                         THEN graph.upstream[graphNode.id] ELSE <<>>
    IN processEdgeRelationshipsFrom(
         IF nodeRef(modelGraph, graphNode.id) = Undefined THEN modelGraph
         ELSE processIncomingEdgesFrom(modelGraph, graphNode.id, incomingEdges, 1),
         graph, i + 1)

processEdgeRelationships(modelGraph, graph) ==
  processEdgeRelationshipsFrom(modelGraph, graph, 1)


\* The TypeError of reading a property of undefined.
TypeError == "TypeError"

\* generateLayoutGraphConnections reads hideInLayout of the source node of
\* every incoming edge of every visible asset node: a source that is not in
\* nodesById makes it throw.
layoutConnectionsThrow(modelGraph) ==
  \E i \in DOMAIN modelGraph.nodes :
    /\ isAssetNode(Some(modelGraph.nodes[i]))
    /\ ~modelGraph.nodes[i].hideInLayout
    /\ \E k \in DOMAIN modelGraph.nodes[i].incomingEdges :
         nodeRef(modelGraph, modelGraph.nodes[i].incomingEdges[k].sourceNodeId) = Undefined

\* The asset nodes without incoming edges from visible nodes, in the order of
\* modelGraph.nodes.
assetNodesWithoutIncomingEdges(modelGraph) ==
  SelectSeq([i \in DOMAIN modelGraph.nodes |-> i],
            LAMBDA i :
              /\ isAssetNode(Some(modelGraph.nodes[i]))
              /\ ~modelGraph.nodes[i].hideInLayout
              /\ \A k \in DOMAIN modelGraph.nodes[i].incomingEdges :
                   LET source == nodeById(modelGraph,
                                          modelGraph.nodes[i].incomingEdges[k].sourceNodeId)
                   IN source # Undefined /\ source[1].hideInLayout)

\* The BFS of generateLayoutGraphConnections: queue holds optional nodes, the
\* result is seenNodeIds in the order in which the ids were added.
RECURSIVE layoutConnectionsBFS(_, _, _)
layoutConnectionsBFS(modelGraph, queue, seenNodeIds) ==
  IF queue = <<>> THEN seenNodeIds
  ELSE
    LET curNode == Head(queue)
    IN IF curNode = Undefined \/ modelGraph.nodes[curNode[1]].hideInLayout
       THEN layoutConnectionsBFS(modelGraph, Tail(queue), seenNodeIds)
       ELSE IF modelGraph.nodes[curNode[1]].id \in Range(seenNodeIds)
       THEN layoutConnectionsBFS(modelGraph, Tail(queue), seenNodeIds)
       ELSE
         LET outgoingEdges == modelGraph.nodes[curNode[1]].outgoingEdges
             targets == [k \in DOMAIN outgoingEdges |->
                           nodeRef(modelGraph, outgoingEdges[k].targetNodeId)]
         IN layoutConnectionsBFS(modelGraph, Tail(queue) \o targets,
                                 Append(seenNodeIds, modelGraph.nodes[curNode[1]].id))

\* The ids the BFS of generateLayoutGraphConnections visits, in order.
seenNodeIdsOf(modelGraph) ==
  LET roots == assetNodesWithoutIncomingEdges(modelGraph)
  IN layoutConnectionsBFS(modelGraph, [k \in DOMAIN roots |-> Some(roots[k])], <<>>)

\* generateLayoutGraphConnections: layoutGraphEdges is reset and the BFS adds
\* nothing to it.  The result is the model graph and the error thrown, if any.
generateLayoutGraphConnections(modelGraph) ==
  IF layoutConnectionsThrow(modelGraph)
  THEN [modelGraph |-> [modelGraph EXCEPT !.layoutGraphEdges = EmptyRecord],
        threw |-> Some(TypeError)]
  ELSE [modelGraph |-> [modelGraph EXCEPT !.layoutGraphEdges = EmptyRecord],
        threw |-> Undefined]

\* gatherDescendants: the descendants (node objects) of the group curRoot, in
\* the order in which they are pushed.
RECURSIVE gatherDescendants(_, _)
RECURSIVE gatherDescendantsFrom(_, _, _)
gatherDescendantsFrom(modelGraph, childrenIds, k) ==
  IF k > Len(childrenIds) THEN <<>>
  ELSE
    LET child == nodeById(modelGraph, childrenIds[k])
        own == IF isGroupNode(child) \/ (isAssetNode(child) /\ ~child[1].hideInLayout)
               THEN <<modelGraph.nodesById[childrenIds[k]]>> ELSE <<>>
        below == IF isGroupNode(child)
                 THEN gatherDescendants(modelGraph, modelGraph.nodesById[childrenIds[k]])
                 ELSE <<>>
    IN own \o below \o gatherDescendantsFrom(modelGraph, childrenIds, k + 1)

gatherDescendants(modelGraph, curRoot) ==
  gatherDescendantsFrom(modelGraph, modelGraph.nodes[curRoot].childrenIds, 1)

\* Number.MAX_VALUE and Number.NEGATIVE_INFINITY, the initial min and max of
\* populateDescendantsAndCounts.
Number_MAX_VALUE == 1000000

Number_NEGATIVE_INFINITY == -1000000

Min2(a, b) == IF a <= b THEN a ELSE b

Max2(a, b) == IF a >= b THEN a ELSE b

\* The loop of populateDescendantsAndCounts from the i-th node on.
RECURSIVE populateDescendantsFrom(_, _, _, _)
populateDescendantsFrom(modelGraph, i, minAssetNodeCount, maxAssetNodeCount) ==
  IF i > Len(modelGraph.nodes)
  THEN [modelGraph EXCEPT !.minDescendantAssetNodeCount = minAssetNodeCount,
                          !.maxDescendantAssetNodeCount = maxAssetNodeCount]
  ELSE IF ~isGroupNode(Some(modelGraph.nodes[i]))
  THEN populateDescendantsFrom(modelGraph, i + 1, minAssetNodeCount, maxAssetNodeCount)
  ELSE
    LET descendants == gatherDescendants(modelGraph, i)
        assets == SelectSeq(descendants,
                            LAMBDA d : modelGraph.nodes[d].nodeType = ASSET_NODE)
        descendantsNodeIds == [k \in DOMAIN descendants |-> modelGraph.nodes[descendants[k]].id]
        descendantsAssetNodeIds == [k \in DOMAIN assets |-> modelGraph.nodes[assets[k]].id]
        assetNodeCount == Len(descendantsAssetNodeIds)
    IN populateDescendantsFrom(
         [modelGraph EXCEPT !.nodes[i].descendantsNodeIds = descendantsNodeIds,
                            !.nodes[i].descendantsAssetNodeIds = descendantsAssetNodeIds],
         i + 1,
         Min2(assetNodeCount, minAssetNodeCount),
         Max2(assetNodeCount, maxAssetNodeCount))

\* populateDescendantsAndCounts with both counts starting at 0.
populateDescendantsAndCountsFromZero(modelGraph) ==
  populateDescendantsFrom(modelGraph, 1, 0, 0)

populateDescendantsAndCounts(modelGraph) ==
  populateDescendantsFrom(modelGraph, 1, Number_MAX_VALUE, Number_NEGATIVE_INFINITY)


-----------------------------------------------------------------------------
(* String operations used by splitLargeGroupNodes. *)

\* The first position at or after i where pattern occurs in s, or 0.
indexOfFrom(s, pattern, i) ==
  LET found == {j \in i .. Len(s) - Len(pattern) + 1 :
                  SubSeq(s, j, j + Len(pattern) - 1) = pattern}
  IN IF found = {} THEN 0
     ELSE CHOOSE j \in found : \A other \in found : j <= other

\* s.replace(pattern, ''): the first occurrence of pattern is removed.
removeFirst(s, pattern) ==
  LET i == indexOfFrom(s, pattern, 1)
  IN IF i = 0 THEN s
     ELSE SubSeq(s, 1, i - 1) \o SubSeq(s, i + Len(pattern), Len(s))

\* s.split('/').filter((c) => c !== '').length: the number of positions at
\* which a segment that is not empty starts.
countSegments(s) ==
  Cardinality({i \in 1 .. Len(s) :
                 /\ SubSeq(s, i, i) # "/"
                 /\ (i = 1 \/ SubSeq(s, i - 1, i - 1) = "/")})

\* array.indexOf(x), 1-based; 0 when x is not in the array.
RECURSIVE indexOfIn(_, _, _)
indexOfIn(array, x, i) ==
  IF i > Len(array) THEN 0
  ELSE IF array[i] = x THEN i
  ELSE indexOfIn(array, x, i + 1)

\* array.splice(i, 1)
RemoveAt(array, i) == SubSeq(array, 1, i - 1) \o SubSeq(array, i + 1, Len(array))

-----------------------------------------------------------------------------
(* getLayoutGraph of worker/GraphLayout, as splitLargeGroupNodes uses it:  *)
(* the nodes are the given children, the edges are those recorded in       *)
(* modelGraph.layoutGraphEdges for the scope, between two of the children. *)

getLayoutGraph(rootGroupNodeId, children, modelGraph) ==
  LET ids == [k \in DOMAIN children |-> modelGraph.nodes[children[k]].id]
      scopeEdges == IF rootGroupNodeId \in DOMAIN modelGraph.layoutGraphEdges
                    THEN modelGraph.layoutGraphEdges[rootGroupNodeId]
                    ELSE EmptyRecord
      successors(from) ==
        IF from \in DOMAIN scopeEdges
        THEN SelectSeq(scopeEdges[from], LAMBDA to : to \in Range(ids))
        ELSE <<>>
  IN [nodes |-> ids,
      outgoingEdges |-> [from \in {id \in Range(ids) : successors(id) # <<>>} |->
                           successors(from)],
      incomingEdges |-> [to \in {id \in Range(ids) :
                                   \E from \in Range(ids) : id \in Range(successors(from))} |->
                           SelectSeq(ids, LAMBDA from : to \in Range(successors(from)))]]


-----------------------------------------------------------------------------
(* splitLargeGroupNodes.  Nodes are referred to by their index in          *)
(* modelGraph.nodes; st is [modelGraph, threw], threw the error thrown.    *)

\* visit(curNodeId) of the DFS: v is [visitedNodeIds, curGroup, groups].
RECURSIVE visit(_, _, _, _, _)
RECURSIVE visitAll(_, _, _, _, _, _)
visit(v, curNodeId, modelGraph, layoutGraph, groupNodeChildrenCountThreshold) ==
  IF curNodeId \in v.visitedNodeIds THEN v
  ELSE
    LET node == modelGraph.nodesById[curNodeId]
        pushed == Append(v.curGroup, node)
        full == Len(pushed) = groupNodeChildrenCountThreshold
        v1 == [visitedNodeIds |-> v.visitedNodeIds \cup {curNodeId},
               curGroup |-> IF full THEN <<>> ELSE pushed,
               groups |-> IF full THEN Append(v.groups, pushed) ELSE v.groups]
        nodeId == modelGraph.nodes[node].id
        childIds == IF nodeId \in DOMAIN layoutGraph.outgoingEdges
                    THEN layoutGraph.outgoingEdges[nodeId] ELSE <<>>
    IN visitAll(v1, childIds, 1, modelGraph, layoutGraph, groupNodeChildrenCountThreshold)

\* visit applied to ids[k], ids[k + 1], ... in turn.
visitAll(v, ids, k, modelGraph, layoutGraph, groupNodeChildrenCountThreshold) ==
  IF k > Len(ids) THEN v
  ELSE visitAll(visit(v, ids[k], modelGraph, layoutGraph, groupNodeChildrenCountThreshold),
                ids, k + 1, modelGraph, layoutGraph, groupNodeChildrenCountThreshold)

\* The buckets (sequences of node objects) the children of one scope are
\* split into: root finding, DFS and the leftover bucket.
splitGroups(modelGraph, layoutGraph, groupNodeChildrenCountThreshold) ==
  LET rootIds == SelectSeq(layoutGraph.nodes,
                           LAMBDA nodeId : nodeId \notin DOMAIN layoutGraph.incomingEdges)
      v == visitAll([visitedNodeIds |-> {}, curGroup |-> <<>>, groups |-> <<>>],
                    rootIds, 1, modelGraph, layoutGraph, groupNodeChildrenCountThreshold)
  IN IF Len(v.curGroup) < groupNodeChildrenCountThreshold /\ Len(v.curGroup) > 0
     THEN Append(v.groups, v.curGroup)
     ELSE v.groups

\* The RangeError of a recursion that exceeds the call stack.
RangeError == "RangeError: Maximum call stack size exceeded"

\* updateNamespace(node) for the node object n; rootScope tells whether the
\* scope being split is the root (curGroupNode == null); depth is the number
\* of calls of updateNamespace on the call stack.
RECURSIVE updateNamespace(_, _, _, _, _)
RECURSIVE updateNamespaceOfChildren(_, _, _, _, _, _)
updateNamespace(st, n, newNamespacePart, rootScope, depth) ==
  IF st.threw # Undefined THEN st
  ELSE IF depth > MaxCallStack THEN [st EXCEPT !.threw = Some(RangeError)]
  ELSE
    LET modelGraph == st.modelGraph
        node == modelGraph.nodes[n]
        oldNamespace == node.namespace
        namespace ==
          IF oldNamespace = "" THEN newNamespacePart
          ELSE IF rootScope THEN newNamespacePart \o "/" \o node.namespace
          ELSE removeFirst(IF node.parentId = Undefined THEN "" ELSE node.parentId[1],
                           "___group___")
        renamespaced == [modelGraph EXCEPT !.nodes[n].namespace = namespace,
                                           !.nodes[n].level = countSegments(namespace)]
    IN IF ~isGroupNode(Some(node)) THEN [st EXCEPT !.modelGraph = renamespaced]
       ELSE
         LET oldNodeId == node.id
             newNodeId == namespace \o "/" \o node.id \o "___group___"
             renamed == [renamespaced EXCEPT
                           !.nodes[n].id = newNodeId,
                           !.nodesById = Put(Delete(@, oldNodeId), newNodeId, n)]
             hasParent == node.parentId # Undefined /\ node.parentId[1] # ""
             nsParent == IF hasParent THEN nodeRef(renamed, node.parentId[1]) ELSE Undefined
             index == IF nsParent = Undefined THEN 0
                      ELSE indexOfIn(renamed.nodes[nsParent[1]].childrenIds, oldNodeId, 1)
             reparented == IF index > 0
                           THEN [renamed EXCEPT
                                   !.nodes[nsParent[1]].childrenIds[index] = newNodeId]
                           ELSE renamed
         IN IF hasParent /\ nsParent = Undefined
            THEN [modelGraph |-> renamed, threw |-> Some(TypeError)]
            ELSE updateNamespaceOfChildren([st EXCEPT !.modelGraph = reparented],
                                           n, 1, newNamespacePart, rootScope, depth)

\* The loop over node.childrenIds in updateNamespace, from the k-th child on.
updateNamespaceOfChildren(st, n, k, newNamespacePart, rootScope, depth) ==
  IF st.threw # Undefined \/ k > Len(st.modelGraph.nodes[n].childrenIds) THEN st
  ELSE
    LET modelGraph == st.modelGraph
        childNode == nodeRef(modelGraph, modelGraph.nodes[n].childrenIds[k])
    IN IF childNode = Undefined
       THEN updateNamespaceOfChildren(st, n, k + 1, newNamespacePart, rootScope, depth)
       ELSE updateNamespaceOfChildren(
              updateNamespace(
                [st EXCEPT !.modelGraph.nodes[childNode[1]].parentId =
                             Some(modelGraph.nodes[n].id)],
                childNode[1], newNamespacePart, rootScope, depth + 1),
              n, k + 1, newNamespacePart, rootScope, depth)

\* updateNamespace applied to nodes[k], nodes[k + 1], ... in turn.
RECURSIVE updateNamespaceOfAll(_, _, _, _, _)
updateNamespaceOfAll(st, nodes, k, newNamespacePart, rootScope) ==
  IF k > Len(nodes) THEN st
  ELSE updateNamespaceOfAll(updateNamespace(st, nodes[k], newNamespacePart, rootScope, 1),
                            nodes, k + 1, newNamespacePart, rootScope)

\* The removal of the nodes of a bucket from modelGraph.rootNodes.
RECURSIVE removeFromRootNodes(_, _, _)
removeFromRootNodes(rootNodes, nodes, k) ==
  IF k > Len(nodes) THEN rootNodes
  ELSE LET index == indexOfIn(rootNodes, nodes[k], 1)
       IN removeFromRootNodes(IF index > 0 THEN RemoveAt(rootNodes, index) ELSE rootNodes,
                              nodes, k + 1)


\* The loop "Create a new group node for each group", from groups[groupIndex]
\* on (groupIndex counts from 1); curGroupNode is the optional group being
\* split.  The result is [modelGraph, threw, newGroupNodes].
RECURSIVE createSectionsFrom(_, _, _, _, _)
createSectionsFrom(st, curGroupNode, groups, groupIndex, newGroupNodes) ==
  IF st.threw # Undefined \/ groupIndex > Len(groups)
  THEN [modelGraph |-> st.modelGraph, threw |-> st.threw, newGroupNodes |-> newGroupNodes]
  ELSE
    LET modelGraph == st.modelGraph
        nodes == groups[groupIndex]
        newGroupNodeNamespace ==
          IF curGroupNode = Undefined THEN ""
          ELSE modelGraph.nodes[curGroupNode[1]].namespace \o "/" \o
               modelGraph.nodes[curGroupNode[1]].id
        baseId == "section_" \o ToString(groupIndex) \o "_of_" \o ToString(Len(groups))
        newGroupNodeId == baseId \o "___group___"
        newGroupNode ==
          [ModelNode EXCEPT
             !.nodeType = GROUP_NODE,
             !.id = newGroupNodeId,
             !.namespace = newGroupNodeNamespace,
             !.level = 0,
             !.parentId = IF curGroupNode = Undefined THEN Undefined
                          ELSE Some(modelGraph.nodes[curGroupNode[1]].id),
             !.childrenIds = [k \in DOMAIN nodes |-> modelGraph.nodes[nodes[k]].id],
             !.expanded = FALSE,
             !.sectionContainer = TRUE]
        section == Len(modelGraph.nodes) + 1
        added == [pushNode(modelGraph, newGroupNode) EXCEPT
                    !.artificialGroupNodeIds = Append(@, newGroupNodeId)]
        reparented == [added EXCEPT
                         !.nodes = [i \in DOMAIN @ |->
                                      IF i \in Range(nodes)
                                      THEN [@[i] EXCEPT !.parentId = Some(newGroupNodeId)]
                                      ELSE @[i]]]
        newNamespacePart == removeFirst(newGroupNodeId, "___group___")
        rooted(updated) ==
          IF curGroupNode # Undefined \/ updated.threw # Undefined THEN updated
          ELSE [updated EXCEPT
                  !.modelGraph.rootNodes =
                     LET removed == removeFromRootNodes(@, nodes, 1)
                     IN IF updated.modelGraph.nodes[section].namespace = ""
                        THEN Append(removed, section) ELSE removed]
    IN createSectionsFrom(
         rooted(updateNamespaceOfAll([modelGraph |-> reparented, threw |-> Undefined],
                                     nodes, 1, newNamespacePart, curGroupNode = Undefined)),
         curGroupNode, groups, groupIndex + 1, Append(newGroupNodes, section))

\* One iteration of the BFS of splitLargeGroupNodes for the scope
\* curGroupNode (optional; undefined is the root scope).  The result is
\* [modelGraph, threw, children, split]: children are the optional node
\* objects the BFS goes on with, split tells whether the scope was split.
splitScope(modelGraph, curGroupNode, groupNodeChildrenCountThreshold) ==
  LET children ==
        IF curGroupNode = Undefined
        THEN [k \in DOMAIN modelGraph.rootNodes |-> Some(modelGraph.rootNodes[k])]
        ELSE [k \in DOMAIN modelGraph.nodes[curGroupNode[1]].childrenIds |->
                nodeRef(modelGraph, modelGraph.nodes[curGroupNode[1]].childrenIds[k])]
  IN IF Len(children) <= groupNodeChildrenCountThreshold
     THEN [modelGraph |-> modelGraph, threw |-> Undefined, children |-> children,
           split |-> FALSE]
     ELSE IF \E k \in DOMAIN children : children[k] = Undefined
     THEN [modelGraph |-> modelGraph, threw |-> Some(TypeError), children |-> children,
           split |-> TRUE]
     ELSE
       LET layoutGraph ==
             getLayoutGraph(IF curGroupNode = Undefined THEN ""
                            ELSE modelGraph.nodes[curGroupNode[1]].id,
                            [k \in DOMAIN children |-> children[k][1]], modelGraph)
           relinked(groups, sections) ==
             [modelGraph |->
                IF curGroupNode = Undefined \/ sections.threw # Undefined
                THEN sections.modelGraph
                ELSE [sections.modelGraph EXCEPT
                        !.nodes[curGroupNode[1]].childrenIds =
                           [k \in DOMAIN sections.newGroupNodes |->
                              sections.modelGraph.nodes[sections.newGroupNodes[k]].id]],
              threw |-> sections.threw,
              children |-> IF groups = <<>> THEN children
                           ELSE [k \in DOMAIN sections.newGroupNodes |->
                                   Some(sections.newGroupNodes[k])],
              split |-> TRUE]
           sectioned(groups) ==
             relinked(groups,
                      createSectionsFrom([modelGraph |-> modelGraph, threw |-> Undefined],
                                         curGroupNode, groups, 1, <<>>))
       IN sectioned(splitGroups(modelGraph, layoutGraph, groupNodeChildrenCountThreshold))

\* The BFS loop of splitLargeGroupNodes; queue holds optional group nodes.
RECURSIVE splitLargeGroupNodesFrom(_, _, _, _)
splitLargeGroupNodesFrom(modelGraph, queue, hasLargeGroupNodes, groupNodeChildrenCountThreshold) ==
  IF queue = <<>>
  THEN IF hasLargeGroupNodes THEN generateLayoutGraphConnections(modelGraph)
       ELSE [modelGraph |-> modelGraph, threw |-> Undefined]
  ELSE
    LET groupChildren(scope) ==
          SelectSeq(scope.children,
                    LAMBDA child :
                      child # Undefined /\ isGroupNode(Some(scope.modelGraph.nodes[child[1]])))
        next(scope) ==
          IF scope.threw # Undefined
          THEN [modelGraph |-> scope.modelGraph, threw |-> scope.threw]
          ELSE splitLargeGroupNodesFrom(scope.modelGraph, Tail(queue) \o groupChildren(scope),
                                        hasLargeGroupNodes \/ scope.split,
                                        groupNodeChildrenCountThreshold)
    IN next(splitScope(modelGraph, Head(queue), groupNodeChildrenCountThreshold))

\* splitLargeGroupNodes: the result is [modelGraph, threw].
splitLargeGroupNodes(modelGraph, groupNodeChildrenCountThreshold) ==
  splitLargeGroupNodesFrom(modelGraph, <<Undefined>>, FALSE,
                           groupNodeChildrenCountThreshold)


\* process(): the result is [modelGraph, posted, threw]; posted are the
\* progress notifications in the order in which they are posted.
process(paneId, graph, groupNodeChildrenCountThreshold, flattenLayers) ==
  LET posted1 == <<updateProcessingProgress(paneId, PROCESSING_NODES_AND_EDGES, Undefined)>>
      posted2 == Append(posted1,
                        updateProcessingProgress(paneId, PROCESSING_LAYOUT_DATA, Undefined))
      posted3 == Append(posted2,
                        updateProcessingProgress(paneId, SPLITTING_LARGE_LAYERS, Undefined))
      afterSplit(split) ==
        IF split.threw # Undefined
        THEN [modelGraph |-> split.modelGraph, posted |-> posted2, threw |-> split.threw]
        ELSE [modelGraph |-> populateDescendantsAndCounts(split.modelGraph),
              posted |-> posted3, threw |-> Undefined]
      afterConnections(connected) ==
        IF connected.threw # Undefined
        THEN [modelGraph |-> connected.modelGraph, posted |-> posted1,
              threw |-> connected.threw]
        ELSE afterSplit(splitLargeGroupNodes(connected.modelGraph,
                                             groupNodeChildrenCountThreshold))
  IN afterConnections(
       generateLayoutGraphConnections(
         processEdgeRelationships(
           processNodes(createEmptyModelGraph, graph, flattenLayers), graph)))

-----------------------------------------------------------------------------
(* The collaborators GraphLayout and GraphExpander, and                    *)
(* getDeepestExpandedGroupNodeIds of common/utils.  Each call of a         *)
(* collaborator either throws before it changes the graph or succeeds.     *)

\* What a failing collaborator throws.
LayoutFailure == "Error: layout failed"

\* What became of the call of the collaborator while one event was handled.
NotCalled == "not called"

Returned == "returned"

Threw == "threw"

\* The group nodes, below root (optional; undefined is the root scope), that
\* are expanded and have no expanded child group.
RECURSIVE getDeepestExpandedGroupNodeIds(_, _)
RECURSIVE deepestExpandedFrom(_, _, _)
deepestExpandedFrom(modelGraph, childrenIds, k) ==
  IF k > Len(childrenIds) THEN <<>>
  ELSE
    LET child == nodeById(modelGraph, childrenIds[k])
        own ==
          IF isGroupNode(child) /\ child[1].expanded
          THEN (IF \E j \in DOMAIN child[1].childrenIds :
                     LET grandChild == nodeById(modelGraph, child[1].childrenIds[j])
                     IN isGroupNode(grandChild) /\ grandChild[1].expanded
                THEN <<>> ELSE <<child[1].id>>)
               \o getDeepestExpandedGroupNodeIds(nodeRef(modelGraph, childrenIds[k]),
                                                 modelGraph)
          ELSE <<>>
    IN own \o deepestExpandedFrom(modelGraph, childrenIds, k + 1)

getDeepestExpandedGroupNodeIds(root, modelGraph) ==
  deepestExpandedFrom(
    modelGraph,
    IF root = Undefined
    THEN [k \in DOMAIN modelGraph.rootNodes |-> modelGraph.nodes[modelGraph.rootNodes[k]].id]
    ELSE modelGraph.nodes[root[1]].childrenIds,
    1)

\* The geometric layout of one scope (optional group node; undefined is the
\* root scope): the nodes of the scope get a size and the scope gets its
\* edge list.
layoutScope(modelGraph, scope) ==
  LET laidOut == IF scope = Undefined THEN Range(modelGraph.rootNodes)
                 ELSE {modelGraph.nodesById[id] :
                         id \in Range(modelGraph.nodes[scope[1]].childrenIds) \cap
                                DOMAIN modelGraph.nodesById}
      scopeId == IF scope = Undefined THEN "" ELSE modelGraph.nodes[scope[1]].id
  IN [modelGraph EXCEPT
        !.nodes = [i \in DOMAIN @ |->
                     IF i \in laidOut THEN [@[i] EXCEPT !.width = Some(1), !.height = Some(1)]
                     ELSE @[i]],
        !.edgesByGroupNodeIds = Put(@, scopeId, <<>>)]

\* layoutScope for the groups scopes[k], scopes[k + 1], ... in turn.
RECURSIVE layoutScopesFrom(_, _, _)
layoutScopesFrom(modelGraph, scopes, k) ==
  IF k > Len(scopes) THEN modelGraph
  ELSE layoutScopesFrom(layoutScope(modelGraph, Some(scopes[k])), scopes, k + 1)

\* GraphLayout.layout(): the layout of the root scope.
layout(modelGraph) == layoutScope(modelGraph, Undefined)

\* The layout of every visible scope, after the stored edge lists are
\* dropped: the expanded groups, then the root.
layoutVisible(modelGraph) ==
  layout(layoutScopesFrom(
           [modelGraph EXCEPT !.edgesByGroupNodeIds = EmptyRecord],
           SelectSeq([i \in DOMAIN modelGraph.nodes |-> i],
                     LAMBDA i : isGroupNode(Some(modelGraph.nodes[i])) /\
                                modelGraph.nodes[i].expanded),
           1))

\* Every group node gets the expanded flag `expanded`.
setAllExpanded(modelGraph, expanded) ==
  [modelGraph EXCEPT
     !.nodes = [i \in DOMAIN @ |->
                  IF isGroupNode(Some(@[i])) THEN [@[i] EXCEPT !.expanded = expanded]
                  ELSE @[i]]]

\* The group with the given id and its ancestors are expanded.
RECURSIVE expandWithAncestors(_, _)
expandWithAncestors(modelGraph, id) ==
  LET node == nodeById(modelGraph, id)
  IN IF ~isGroupNode(node) \/ node[1].expanded THEN modelGraph
     ELSE LET expanded == [modelGraph EXCEPT !.nodes[modelGraph.nodesById[id]].expanded = TRUE]
          IN IF node[1].parentId = Undefined THEN expanded
             ELSE expandWithAncestors(expanded, node[1].parentId[1])

RECURSIVE expandTargetsFrom(_, _, _)
expandTargetsFrom(modelGraph, ids, k) ==
  IF k > Len(ids) THEN modelGraph
  ELSE expandTargetsFrom(expandWithAncestors(modelGraph, ids[k]), ids, k + 1)

\* GraphExpander.reLayoutGraph(targetDeepestGroupNodeIdsToExpand?,
\* clearAllExpandStates?)
reLayoutGraph(modelGraph, targetDeepestGroupNodeIdsToExpand, clearAllExpandStates) ==
  LET cleared == IF clearAllExpandStates = Some(TRUE)
                 THEN setAllExpanded(modelGraph, FALSE) ELSE modelGraph
      targets == IF targetDeepestGroupNodeIdsToExpand = Undefined THEN <<>>
                 ELSE targetDeepestGroupNodeIdsToExpand[1]
  IN layoutVisible(expandTargetsFrom(cleared, targets, 1))

\* GraphExpander.expandAllGroups(): [modelGraph, ids]
expandAllGroups(modelGraph) ==
  LET expanded == layoutVisible(setAllExpanded(modelGraph, TRUE))
  IN [modelGraph |-> expanded,
      ids |-> getDeepestExpandedGroupNodeIds(Undefined, expanded)]

\* GraphExpander.collapseGroupNode(groupNodeId): [modelGraph, ids]
collapseGroupNode(modelGraph, groupNodeId) ==
  IF ~isGroupNode(nodeById(modelGraph, groupNodeId))
  THEN [modelGraph |-> modelGraph, ids |-> <<>>]
  ELSE
    LET collapsed ==
          layoutVisible(
            [modelGraph EXCEPT
               !.nodes[modelGraph.nodesById[groupNodeId]].expanded = FALSE,
               !.edgesByGroupNodeIds = Delete(@, groupNodeId)])
    IN [modelGraph |-> collapsed,
        ids |-> getDeepestExpandedGroupNodeIds(Undefined, collapsed)]

\* GraphExpander.collapseAllGroup(): [modelGraph, ids]
collapseAllGroup(modelGraph) ==
  LET collapsed == setAllExpanded(modelGraph, FALSE)
      cleared == [collapsed EXCEPT
                    !.nodes = [i \in DOMAIN @ |->
                                 [@[i] EXCEPT !.width = Undefined, !.height = Undefined]],
                    !.edgesByGroupNodeIds = EmptyRecord]
  IN [modelGraph |-> layout(cleared), ids |-> <<>>]


-----------------------------------------------------------------------------
(* worker: the handlers.  A handler works on the cached model graph in     *)
(* place, so its result carries the graph as the handler left it also when *)
(* the handler throws: [modelGraph, ..., threw].                           *)

EmptyIdsError ==
  "Some nodes have empty strings as ids which will cause layout failures. See console for details."

\* handleProcessGraph without the !error guard of the initial layout.
handleProcessGraphAlwaysLayout(graphId, graph, initialLayout, layoutThrows) ==
  LET emptyIds(modelGraph) ==
        IF nodeRef(modelGraph, "") # Undefined THEN Some(EmptyIdsError) ELSE Undefined
      doLayout(error) == initialLayout = Some(TRUE)
      laidOut(modelGraph, progress, error) ==
        [modelGraph |-> IF doLayout(error) /\ ~layoutThrows THEN layout(modelGraph)
                        ELSE modelGraph,
         posted |-> Append(progress,
                           updateProcessingProgress(
                             graphId, LAYING_OUT_ROOT_LAYER,
                             IF doLayout(error) /\ layoutThrows
                             THEN Some("Failed to layout graph: " \o LayoutFailure)
                             ELSE error)),
         threw |-> Undefined,
         collaborator |-> IF ~doLayout(error) THEN NotCalled
                          ELSE IF layoutThrows THEN Threw ELSE Returned]
      checked(processed) ==
        IF processed.threw # Undefined
        THEN [modelGraph |-> processed.modelGraph, posted |-> processed.posted,
              threw |-> processed.threw, collaborator |-> NotCalled]
        ELSE laidOut(processed.modelGraph, processed.posted, emptyIds(processed.modelGraph))
  IN checked(process(graphId, graph, DEFAULT_GROUP_NODE_CHILDREN_COUNT_THRESHOLD, FALSE))

\* handleProcessGraph: [modelGraph, posted, threw, collaborator].  layoutThrows
\* tells whether layout.layout() throws if it is called.
handleProcessGraph(graphId, graph, initialLayout, layoutThrows) ==
  LET emptyIds(modelGraph) ==
        IF nodeRef(modelGraph, "") # Undefined THEN Some(EmptyIdsError) ELSE Undefined
      doLayout(error) == error = Undefined /\ initialLayout = Some(TRUE)
      laidOut(modelGraph, progress, error) ==
        [modelGraph |-> IF doLayout(error) /\ ~layoutThrows THEN layout(modelGraph)
                        ELSE modelGraph,
         posted |-> Append(progress,
                           updateProcessingProgress(
                             graphId, LAYING_OUT_ROOT_LAYER,
                             IF doLayout(error) /\ layoutThrows
                             THEN Some("Failed to layout graph: " \o LayoutFailure)
                             ELSE error)),
         threw |-> Undefined,
         collaborator |-> IF ~doLayout(error) THEN NotCalled
                          ELSE IF layoutThrows THEN Threw ELSE Returned]
      checked(processed) ==
        IF processed.threw # Undefined
        THEN [modelGraph |-> processed.modelGraph, posted |-> processed.posted,
              threw |-> processed.threw, collaborator |-> NotCalled]
        ELSE laidOut(processed.modelGraph, processed.posted, emptyIds(processed.modelGraph))
  IN checked(process(graphId, graph, DEFAULT_GROUP_NODE_CHILDREN_COUNT_THRESHOLD, FALSE))

\* The single-child loop leaving at once: no child group is expanded.
expandSingleChildChainStopsAtOnce(modelGraph, curGroupNode) ==
  [modelGraph |-> modelGraph, curGroupNode |-> curGroupNode]

\* The loop "Recursively expand child group node if there is only one
\* child": [modelGraph, curGroupNode].
RECURSIVE expandSingleChildChain(_, _)
expandSingleChildChain(modelGraph, curGroupNode) ==
  LET childrenIds == modelGraph.nodes[curGroupNode].childrenIds
      child == IF Len(childrenIds) = 1 THEN nodeById(modelGraph, childrenIds[1])
               ELSE Undefined
  IN IF Len(childrenIds) = 1 /\ isGroupNode(child)
     THEN expandSingleChildChain(
            [modelGraph EXCEPT !.nodes[modelGraph.nodesById[childrenIds[1]]].expanded = TRUE],
            modelGraph.nodesById[childrenIds[1]])
     ELSE [modelGraph |-> modelGraph, curGroupNode |-> curGroupNode]

\* The loop that clears width and height of the nodes ids[k], ids[k + 1], ...
RECURSIVE clearSizesFrom(_, _, _)
clearSizesFrom(st, ids, k) ==
  IF st.threw # Undefined \/ k > Len(ids) THEN st
  ELSE IF nodeRef(st.modelGraph, ids[k]) = Undefined
  THEN [st EXCEPT !.threw = Some(TypeError)]
  ELSE clearSizesFrom(
         [st EXCEPT !.modelGraph.nodes[st.modelGraph.nodesById[ids[k]]].width = Undefined,
                    !.modelGraph.nodes[st.modelGraph.nodesById[ids[k]]].height = Undefined],
         ids, k + 1)

\* The loop of the `all` branch of handleExpandGroupNode.
RECURSIVE expandDescendantsFrom(_, _, _)
expandDescendantsFrom(modelGraph, ids, k) ==
  IF k > Len(ids) THEN modelGraph
  ELSE expandDescendantsFrom(
         IF isGroupNode(nodeById(modelGraph, ids[k]))
         THEN [modelGraph EXCEPT !.nodes[modelGraph.nodesById[ids[k]]].expanded = TRUE]
         ELSE modelGraph,
         ids, k + 1)

\* handleExpandGroupNode: [modelGraph, ids, threw, collaborator].  expanderThrows tells
\* whether the call of the GraphExpander throws.
handleExpandGroupNode(modelGraph, groupNodeId, all, expanderThrows) ==
  IF groupNodeId = Undefined
  THEN IF expanderThrows
       THEN [modelGraph |-> modelGraph, ids |-> <<>>, threw |-> Some(LayoutFailure),
             collaborator |-> Threw]
       ELSE LET expanded == expandAllGroups(modelGraph)
            IN [modelGraph |-> expanded.modelGraph, ids |-> expanded.ids,
                threw |-> Undefined, collaborator |-> Returned]
  ELSE
    LET groupNode == nodeRef(modelGraph, groupNodeId[1])
        isGroup == isGroupNode(nodeById(modelGraph, groupNodeId[1]))
        chain == expandSingleChildChain(
                   [modelGraph EXCEPT !.nodes[groupNode[1]].expanded = TRUE], groupNode[1])
        curGroupNode == chain.modelGraph.nodes[chain.curGroupNode]
        chainIds == getDeepestExpandedGroupNodeIds(Some(chain.curGroupNode), chain.modelGraph)
        sized == IF isGroup
                 THEN clearSizesFrom([modelGraph |-> chain.modelGraph, threw |-> Undefined],
                                     curGroupNode.descendantsNodeIds, 1)
                 ELSE [modelGraph |-> modelGraph, threw |-> Undefined]
        deepestOfGroup == IF ~isGroup THEN Undefined
                          ELSE IF chainIds = <<>> THEN Some(<<curGroupNode.id>>)
                          ELSE Some(chainIds)
        allThrows == all /\ groupNode = Undefined
        expandedAll ==
          IF all /\ ~allThrows
          THEN expandDescendantsFrom(sized.modelGraph,
                                     sized.modelGraph.nodes[groupNode[1]].descendantsNodeIds, 1)
          ELSE sized.modelGraph
        deepestExpandedGroupNodeId == IF all THEN Undefined ELSE deepestOfGroup
        relaidOut == reLayoutGraph(expandedAll, deepestExpandedGroupNodeId, Undefined)
    IN IF sized.threw # Undefined
       THEN [modelGraph |-> sized.modelGraph, ids |-> <<>>, threw |-> sized.threw,
             collaborator |-> NotCalled]
       ELSE IF allThrows
       THEN [modelGraph |-> sized.modelGraph, ids |-> <<>>, threw |-> Some(TypeError),
             collaborator |-> NotCalled]
       ELSE IF expanderThrows
       THEN [modelGraph |-> expandedAll, ids |-> <<>>, threw |-> Some(LayoutFailure),
             collaborator |-> Threw]
       ELSE [modelGraph |-> relaidOut,
             ids |-> getDeepestExpandedGroupNodeIds(Undefined, relaidOut),
             threw |-> Undefined, collaborator |-> Returned]

\* The loop of the `all` branch of handleCollapseGroupNode.
RECURSIVE collapseDescendantsFrom(_, _, _)
collapseDescendantsFrom(modelGraph, ids, k) ==
  IF k > Len(ids) THEN modelGraph
  ELSE collapseDescendantsFrom(
         IF isGroupNode(nodeById(modelGraph, ids[k]))
         THEN LET node == modelGraph.nodesById[ids[k]]
              IN [modelGraph EXCEPT
                    !.nodes[node].expanded = FALSE,
                    !.nodes[node].width = Undefined,
                    !.nodes[node].height = Undefined,
                    !.edgesByGroupNodeIds = Delete(@, modelGraph.nodes[node].id)]
         ELSE modelGraph,
         ids, k + 1)

\* handleCollapseGroupNode with the loop over the descendants clearing the
\* expanded flags only.
handleCollapseGroupNodeFlagsOnly(modelGraph, groupNodeId, all, expanderThrows) ==
  IF groupNodeId = Undefined
  THEN IF expanderThrows
       THEN [modelGraph |-> modelGraph, ids |-> <<>>, threw |-> Some(LayoutFailure),
             collaborator |-> Threw]
       ELSE LET collapsed == collapseAllGroup(modelGraph)
            IN [modelGraph |-> collapsed.modelGraph, ids |-> collapsed.ids,
                threw |-> Undefined, collaborator |-> Returned]
  ELSE
    LET groupNode == nodeRef(modelGraph, groupNodeId[1])
        allThrows == all /\ groupNode = Undefined
        collapsedAll ==
          IF all /\ ~allThrows
          THEN [modelGraph EXCEPT
                  !.nodes = [i \in DOMAIN @ |->
                               IF /\ @[i].id \in Range(modelGraph.nodes[groupNode[1]].descendantsNodeIds)
                                  /\ isGroupNode(nodeById(modelGraph, @[i].id))
                                  /\ modelGraph.nodesById[@[i].id] = i
                               THEN [@[i] EXCEPT !.expanded = FALSE]
                               ELSE @[i]]]
          ELSE modelGraph
        collapsed == collapseGroupNode(collapsedAll, groupNodeId[1])
    IN IF allThrows
       THEN [modelGraph |-> modelGraph, ids |-> <<>>, threw |-> Some(TypeError),
             collaborator |-> NotCalled]
       ELSE IF expanderThrows
       THEN [modelGraph |-> collapsedAll, ids |-> <<>>, threw |-> Some(LayoutFailure),
             collaborator |-> Threw]
       ELSE [modelGraph |-> collapsed.modelGraph, ids |-> collapsed.ids,
             threw |-> Undefined, collaborator |-> Returned]

\* handleCollapseGroupNode: [modelGraph, ids, threw, collaborator]
handleCollapseGroupNode(modelGraph, groupNodeId, all, expanderThrows) ==
  IF groupNodeId = Undefined
  THEN IF expanderThrows
       THEN [modelGraph |-> modelGraph, ids |-> <<>>, threw |-> Some(LayoutFailure),
             collaborator |-> Threw]
       ELSE LET collapsed == collapseAllGroup(modelGraph)
            IN [modelGraph |-> collapsed.modelGraph, ids |-> collapsed.ids,
                threw |-> Undefined, collaborator |-> Returned]
  ELSE
    LET groupNode == nodeRef(modelGraph, groupNodeId[1])
        allThrows == all /\ groupNode = Undefined
        collapsedAll ==
          IF all /\ ~allThrows
          THEN collapseDescendantsFrom(modelGraph,
                                       modelGraph.nodes[groupNode[1]].descendantsNodeIds, 1)
          ELSE modelGraph
        collapsed == collapseGroupNode(collapsedAll, groupNodeId[1])
    IN IF allThrows
       THEN [modelGraph |-> modelGraph, ids |-> <<>>, threw |-> Some(TypeError),
             collaborator |-> NotCalled]
       ELSE IF expanderThrows
       THEN [modelGraph |-> collapsedAll, ids |-> <<>>, threw |-> Some(LayoutFailure),
             collaborator |-> Threw]
       ELSE [modelGraph |-> collapsed.modelGraph, ids |-> collapsed.ids,
             threw |-> Undefined, collaborator |-> Returned]

\* handleReLayoutGraph with the stored edges of the nodes dropped before the
\* layout.
handleReLayoutGraphDropsEdges(modelGraph, targetDeepestGroupNodeIdsToExpand, clearAllExpandStates, expanderThrows) ==
  IF expanderThrows
  THEN [modelGraph |-> modelGraph, threw |-> Some(LayoutFailure), collaborator |-> Threw]
  ELSE [modelGraph |-> reLayoutGraph([modelGraph EXCEPT
                                        !.nodes = [i \in DOMAIN @ |->
                                                     [@[i] EXCEPT !.incomingEdges = <<>>,
                                                                  !.outgoingEdges = <<>>]]],
                                     targetDeepestGroupNodeIdsToExpand, clearAllExpandStates),
        threw |-> Undefined, collaborator |-> Returned]

\* handleReLayoutGraph: [modelGraph, threw, collaborator]
handleReLayoutGraph(modelGraph, targetDeepestGroupNodeIdsToExpand, clearAllExpandStates, expanderThrows) ==
  IF expanderThrows
  THEN [modelGraph |-> modelGraph, threw |-> Some(LayoutFailure), collaborator |-> Threw]
  ELSE [modelGraph |-> reLayoutGraph(modelGraph, targetDeepestGroupNodeIdsToExpand,
                                     clearAllExpandStates),
        threw |-> Undefined, collaborator |-> Returned]


-----------------------------------------------------------------------------
(* worker: MODEL_GRAPHS_CACHE and the message listener.  The cache maps a  *)
(* key to a model graph object, heap maps the object to its contents.  The *)
(* result of the listener for one event is [cache, heap, posted, uncaught, *)
(* collaborator]: posted are the messages it passed to postMessage, in     *)
(* order, and uncaught is the error that left the listener, if any.        *)

getModelGraphKey(modelGraphId, rendererId) == modelGraphId \o "___" \o rendererId

\* cacheModelGraph on the model graph object ref: the cache after it.
cacheModelGraph(cache, hp, ref, rendererId) ==
  Put(cache, getModelGraphKey(hp[ref].id, rendererId), ref)

\* getCachedModelGraph looking up by rendererId alone.
getCachedModelGraphOfRenderer(cache, modelGraphId, rendererId) ==
  IF getModelGraphKey("<ROOT>", rendererId) \in DOMAIN cache
  THEN Some(cache[getModelGraphKey("<ROOT>", rendererId)])
  ELSE Undefined

\* getCachedModelGraph: the cached object, or undefined where the code throws.
getCachedModelGraph(cache, modelGraphId, rendererId) ==
  IF getModelGraphKey(modelGraphId, rendererId) \in DOMAIN cache
  THEN Some(cache[getModelGraphKey(modelGraphId, rendererId)])
  ELSE Undefined

\* The Error getCachedModelGraph throws.
NotFoundError(modelGraphId, rendererId) ==
  "Error: ModelGraph with id \"" \o modelGraphId \o "\" not found for rendererId \""
    \o rendererId \o "\""

\* A reference no cached object has: the object a `new` creates.
newObject(cache) == Cardinality(DOMAIN cache) + 1

\* The elements of the set S, one after the other.
RECURSIVE SeqOf(_)
SeqOf(S) ==
  IF S = {} THEN <<>>
  ELSE LET x == CHOOSE y \in S : TRUE IN <<x>> \o SeqOf(S \ {x})

\* The sequence s without the repetitions of its elements.
RECURSIVE Distinct(_)
Distinct(s) ==
  IF s = <<>> THEN <<>>
  ELSE LET front == Distinct(SubSeq(s, 1, Len(s) - 1))
       IN IF s[Len(s)] \in Range(front) THEN front ELSE Append(front, s[Len(s)])

\* The cache and the objects still reachable from it (the others are
\* reclaimed), the objects numbered 1, 2, ... in the order of the keys:
\* references are compared, never shown, so their values do not matter.
reachable(cache, hp) ==
  LET keys == SeqOf(DOMAIN cache)
      objects == Distinct([k \in DOMAIN keys |-> cache[keys[k]]])
  IN [cache |-> [key \in DOMAIN cache |-> indexOfIn(objects, cache[key], 1)],
      heap |-> [ref \in DOMAIN objects |-> hp[objects[ref]]]]

\* case PROCESS_GRAPH_REQ
onProcessGraph(cache, hp, workerEvent, layoutThrows) ==
  LET modelGraph == newObject(cache)
      cached(hp1) ==
        reachable(cacheModelGraph(cache, hp1, modelGraph, workerEvent.graphId), hp1)
      resp(handled) == [eventType |-> PROCESS_GRAPH_RESP,
                        modelGraph |-> handled.modelGraph,
                        graphId |-> workerEvent.graphId]
      responded(handled, live) ==
        [cache |-> live.cache, heap |-> live.heap,
         posted |-> Append(handled.posted, resp(handled)), uncaught |-> Undefined,
         collaborator |-> handled.collaborator]
      listened(handled) ==
        IF handled.threw # Undefined
        THEN [cache |-> cache, heap |-> hp, posted |-> handled.posted,
              uncaught |-> handled.threw, collaborator |-> handled.collaborator]
        ELSE responded(handled, cached(Put(hp, modelGraph, handled.modelGraph)))
  IN listened(handleProcessGraph(workerEvent.graphId, workerEvent.graph,
                                 workerEvent.initialLayout, layoutThrows))

\* case EXPAND_OR_COLLAPSE_GROUP_NODE_REQ
onExpandOrCollapseGroupNode(cache, hp, workerEvent, expanderThrows) ==
  LET cached == getCachedModelGraph(cache, workerEvent.modelGraphId, workerEvent.rendererId)
      modelGraph == cached[1]
      recached(hp1) ==
        reachable(cacheModelGraph(cache, hp1, modelGraph, workerEvent.rendererId), hp1)
      resp(handled) == [eventType |-> EXPAND_OR_COLLAPSE_GROUP_NODE_RESP,
                        modelGraph |-> handled.modelGraph,
                        expanded |-> workerEvent.expand,
                        groupNodeId |-> workerEvent.groupNodeId,
                        rendererId |-> workerEvent.rendererId,
                        deepestExpandedGroupNodeIds |-> handled.ids]
      responded(handled, live) ==
        [cache |-> live.cache, heap |-> live.heap, posted |-> <<resp(handled)>>,
         uncaught |-> Undefined, collaborator |-> handled.collaborator]
      listened(handled) ==
        IF handled.threw # Undefined
        THEN [cache |-> cache, heap |-> [hp EXCEPT ![modelGraph] = handled.modelGraph],
              posted |-> <<>>, uncaught |-> handled.threw,
              collaborator |-> handled.collaborator]
        ELSE responded(handled, recached([hp EXCEPT ![modelGraph] = handled.modelGraph]))
  IN IF cached = Undefined
     THEN [cache |-> cache, heap |-> hp, posted |-> <<>>,
           uncaught |-> Some(NotFoundError(workerEvent.modelGraphId, workerEvent.rendererId)),
           collaborator |-> NotCalled]
     ELSE IF workerEvent.expand
     THEN listened(handleExpandGroupNode(hp[modelGraph], workerEvent.groupNodeId,
                                         workerEvent.all = Some(TRUE), expanderThrows))
     ELSE listened(handleCollapseGroupNode(hp[modelGraph], workerEvent.groupNodeId,
                                           workerEvent.all = Some(TRUE), expanderThrows))

\* case RELAYOUT_GRAPH_REQ with the modelGraphId of the request as the
\* rendererId of the response.
onRelayoutGraphEchoesModelGraphId(cache, hp, workerEvent, expanderThrows) ==
  LET cached == getCachedModelGraph(cache, workerEvent.modelGraphId, workerEvent.rendererId)
      modelGraph == cached[1]
      recached(hp1) ==
        reachable(cacheModelGraph(cache, hp1, modelGraph, workerEvent.rendererId), hp1)
      resp(handled) == [eventType |-> RELAYOUT_GRAPH_RESP,
                        modelGraph |-> handled.modelGraph,
                        selectedNodeId |-> workerEvent.selectedNodeId,
                        rendererId |-> workerEvent.modelGraphId,
                        forRestoringUiState |-> workerEvent.forRestoringUiState,
                        rectToZoomFit |-> workerEvent.rectToZoomFit,
                        forRestoringSnapshotAfterTogglingFlattenLayers |->
                          workerEvent.forRestoringSnapshotAfterTogglingFlattenLayers,
                        targetDeepestGroupNodeIdsToExpand |->
                          workerEvent.targetDeepestGroupNodeIdsToExpand]
      responded(handled, live) ==
        [cache |-> live.cache, heap |-> live.heap, posted |-> <<resp(handled)>>,
         uncaught |-> Undefined, collaborator |-> handled.collaborator]
      listened(handled) ==
        IF handled.threw # Undefined
        THEN [cache |-> cache, heap |-> [hp EXCEPT ![modelGraph] = handled.modelGraph],
              posted |-> <<>>, uncaught |-> handled.threw,
              collaborator |-> handled.collaborator]
        ELSE responded(handled, recached([hp EXCEPT ![modelGraph] = handled.modelGraph]))
  IN IF cached = Undefined
     THEN [cache |-> cache, heap |-> hp, posted |-> <<>>,
           uncaught |-> Some(NotFoundError(workerEvent.modelGraphId, workerEvent.rendererId)),
           collaborator |-> NotCalled]
     ELSE listened(handleReLayoutGraph(hp[modelGraph],
                                       workerEvent.targetDeepestGroupNodeIdsToExpand,
                                       workerEvent.clearAllExpandStates, expanderThrows))

\* case RELAYOUT_GRAPH_REQ
onRelayoutGraph(cache, hp, workerEvent, expanderThrows) ==
  LET cached == getCachedModelGraph(cache, workerEvent.modelGraphId, workerEvent.rendererId)
      modelGraph == cached[1]
      recached(hp1) ==
        reachable(cacheModelGraph(cache, hp1, modelGraph, workerEvent.rendererId), hp1)
      resp(handled) == [eventType |-> RELAYOUT_GRAPH_RESP,
                        modelGraph |-> handled.modelGraph,
                        selectedNodeId |-> workerEvent.selectedNodeId,
                        rendererId |-> workerEvent.rendererId,
                        forRestoringUiState |-> workerEvent.forRestoringUiState,
                        rectToZoomFit |-> workerEvent.rectToZoomFit,
                        forRestoringSnapshotAfterTogglingFlattenLayers |->
                          workerEvent.forRestoringSnapshotAfterTogglingFlattenLayers,
                        targetDeepestGroupNodeIdsToExpand |->
                          workerEvent.targetDeepestGroupNodeIdsToExpand]
      responded(handled, live) ==
        [cache |-> live.cache, heap |-> live.heap, posted |-> <<resp(handled)>>,
         uncaught |-> Undefined, collaborator |-> handled.collaborator]
      listened(handled) ==
        IF handled.threw # Undefined
        THEN [cache |-> cache, heap |-> [hp EXCEPT ![modelGraph] = handled.modelGraph],
              posted |-> <<>>, uncaught |-> handled.threw,
              collaborator |-> handled.collaborator]
        ELSE responded(handled, recached([hp EXCEPT ![modelGraph] = handled.modelGraph]))
  IN IF cached = Undefined
     THEN [cache |-> cache, heap |-> hp, posted |-> <<>>,
           uncaught |-> Some(NotFoundError(workerEvent.modelGraphId, workerEvent.rendererId)),
           collaborator |-> NotCalled]
     ELSE listened(handleReLayoutGraph(hp[modelGraph],
                                       workerEvent.targetDeepestGroupNodeIdsToExpand,
                                       workerEvent.clearAllExpandStates, expanderThrows))

\* case CLEANUP
onCleanup(cache, hp, workerEvent) ==
  [cache |-> EmptyRecord, heap |-> reachable(EmptyRecord, hp).heap, posted |-> <<>>,
   uncaught |-> Undefined, collaborator |-> NotCalled]

\* default placed before case CLEANUP without a break.
onOtherEventFallsThrough(cache, hp, workerEvent) ==
  [cache |-> EmptyRecord, heap |-> EmptyRecord, posted |-> <<>>, uncaught |-> Undefined,
   collaborator |-> NotCalled]

\* default
onOtherEvent(cache, hp, workerEvent) ==
  [cache |-> cache, heap |-> hp, posted |-> <<>>, uncaught |-> Undefined,
   collaborator |-> NotCalled]


-----------------------------------------------------------------------------
(* The events delivered to the worker. *)

\* graphId of ProcessGraph requests: a plain id, and an id that contains the
\* separator of getModelGraphKey.
GraphIds == {"g1", "<ROOT>___g1"}

\* The input graphs of ProcessGraph requests: a chain a -> b -> c in one
\* group, and two groups with a node whose id is the empty string.
WorkerGraphs ==
  {GraphData(<<GraphNode("a", "g"), GraphNode("b", "g"), GraphNode("c", "g")>>,
             ("b" :> <<"a">>) @@ ("c" :> <<"b">>)),
   GraphData(<<GraphNode("", "g"), GraphNode("a", "h")>>,
             ("a" :> <<"">>))}

\* groupNodeId of expand and collapse requests: none, a group, an asset node,
\* an id that no graph has.
GroupNodeIds == {Undefined, Some("g"), Some("a"), Some("zz")}

ProcessGraphRequests ==
  [eventType : {PROCESS_GRAPH_REQ}, graph : WorkerGraphs, graphId : GraphIds,
   initialLayout : {Undefined, Some(TRUE)}]

\* The pairs <<modelGraphId, rendererId>> of the other requests: the id of
\* the model graph in a response with the graphId of its request, twice; a
\* pair that splits the key of graphId "<ROOT>___g1" elsewhere; and a pair
\* that names the graphId as model graph id.
RequestKeys ==
  {<<"<ROOT>", "g1">>, <<"<ROOT>", "<ROOT>___g1">>, <<"<ROOT>___<ROOT>", "g1">>,
   <<"g1", "g1">>}

\* graphId and ts of the request are left out: the worker reads neither.
ExpandOrCollapseGroupNodeRequests ==
  {[eventType |-> EXPAND_OR_COLLAPSE_GROUP_NODE_REQ, modelGraphId |-> key[1],
    groupNodeId |-> groupNodeId, expand |-> expand, rendererId |-> key[2],
    all |-> all] :
     key \in RequestKeys, groupNodeId \in GroupNodeIds, expand \in BOOLEAN,
     all \in {Undefined, Some(TRUE)}}

RelayoutGraphRequests ==
  {[eventType |-> RELAYOUT_GRAPH_REQ, modelGraphId |-> key[1],
    targetDeepestGroupNodeIdsToExpand |-> targets,
    selectedNodeId |-> "a", rendererId |-> key[2],
    forRestoringUiState |-> Some(TRUE), rectToZoomFit |-> Undefined,
    clearAllExpandStates |-> clearAllExpandStates,
    forRestoringSnapshotAfterTogglingFlattenLayers |-> Some(FALSE)] :
     key \in RequestKeys, targets \in {Undefined, Some(<<"g">>)},
     clearAllExpandStates \in {Undefined, Some(TRUE)}}

\* The event types the listener has no case for: the responses, the progress
\* notification, and a type that is not in WorkerEventType.
OtherEventTypes ==
  {PROCESS_GRAPH_RESP, EXPAND_OR_COLLAPSE_GROUP_NODE_RESP, RELAYOUT_GRAPH_RESP,
   UPDATE_PROCESSING_PROGRESS, "UNKNOWN"}

-----------------------------------------------------------------------------
(* The worker: one action per case of the listener's switch. *)

NoInput == GraphData(<<>>, EmptyRecord)

Idle == "idle"

Init ==
  /\ MODEL_GRAPHS_CACHE = EmptyRecord
  /\ heap = EmptyRecord
  /\ lastEvent = Undefined
  /\ posted = <<>>
  /\ uncaught = Undefined
  /\ collaborator = NotCalled
  /\ input = NoInput
  /\ built = createEmptyModelGraph
  /\ phase = Idle
  /\ threshold = DEFAULT_GROUP_NODE_CHILDREN_COUNT_THRESHOLD
  /\ preExpand = Undefined
  /\ inbox = <<>>
  /\ running = <<>>
  /\ outbox = <<>>
  /\ delivered = 0

\* The listener has handled workerEvent with the given result.
Handled(workerEvent, result) ==
  /\ lastEvent' = Some(workerEvent)
  /\ MODEL_GRAPHS_CACHE' = result.cache
  /\ heap' = result.heap
  /\ posted' = result.posted
  /\ uncaught' = result.uncaught
  /\ collaborator' = result.collaborator
  /\ UNCHANGED <<processorVars, listenerVars>>

ProcessGraph ==
  \E workerEvent \in ProcessGraphRequests, layoutThrows \in BOOLEAN :
    Handled(workerEvent, onProcessGraph(MODEL_GRAPHS_CACHE, heap, workerEvent, layoutThrows))

ExpandOrCollapseGroupNode ==
  \E workerEvent \in ExpandOrCollapseGroupNodeRequests, expanderThrows \in BOOLEAN :
    Handled(workerEvent,
            onExpandOrCollapseGroupNode(MODEL_GRAPHS_CACHE, heap, workerEvent, expanderThrows))

RelayoutGraph ==
  \E workerEvent \in RelayoutGraphRequests, expanderThrows \in BOOLEAN :
    Handled(workerEvent, onRelayoutGraph(MODEL_GRAPHS_CACHE, heap, workerEvent, expanderThrows))

Cleanup ==
  LET workerEvent == [eventType |-> CLEANUP]
  IN Handled(workerEvent, onCleanup(MODEL_GRAPHS_CACHE, heap, workerEvent))

OtherEvent ==
  \E eventType \in OtherEventTypes :
    LET workerEvent == [eventType |-> eventType]
    IN Handled(workerEvent, onOtherEvent(MODEL_GRAPHS_CACHE, heap, workerEvent))

Next ==
  \/ ProcessGraph
  \/ ExpandOrCollapseGroupNode
  \/ RelayoutGraph
  \/ Cleanup
  \/ OtherEvent

Spec == Init /\ [][Next]_vars

-----------------------------------------------------------------------------
(* One run of GraphProcessor.process(), phase by phase, on any input graph *)
(* within the bounds.                                                      *)

\* The nodes an input graph is made of, each with its group: two nodes of
\* the group "g", one of which has the id of the group, and a node of
\* another group.
ProcessorNodes == {GraphNode("a", "g"), GraphNode("g", "g"), GraphNode("b", "h")}

\* The keys of the upstream maps: ids of nodes, and an id that no node has.
UpstreamIds == {"a", "g", "zz"}

\* The thresholds a GraphProcessor is constructed with.
Thresholds == 1 .. DEFAULT_GROUP_NODE_CHILDREN_COUNT_THRESHOLD

\* The parents of the nodes of a model graph with a hierarchy: none (a root
\* node) or one of the groups "g" and "h".
Parents == {Undefined, Some("g"), Some("h")}

\* A model graph with a hierarchy, as ModelGraph.ts describes it: the asset
\* nodes a1 .. an, asset k below parentOf[k], and the groups "g" (a root) and
\* "h" (below hParent); childrenIds lists the nodes with that parentId,
\* rootNodes the nodes without one; a1 is hidden from layout if `hidden`.
hierarchy(n, parentOf, hParent, hidden) ==
  LET assetId(k) == "a" \o ToString(k)
      assets == [k \in 1 .. n |->
                   [ModelNode EXCEPT
                      !.nodeType = ASSET_NODE,
                      !.id = assetId(k),
                      !.level = 1,
                      !.namespace = IF parentOf[k] = Undefined THEN ""
                                    ELSE parentOf[k][1] \o "/" \o assetId(k),
                      !.parentId = parentOf[k],
                      !.hideInLayout = (k = 1 /\ hidden)]]
      childrenOf(id) ==
        [k \in DOMAIN SelectSeq([j \in 1 .. n |-> j], LAMBDA j : parentOf[j] = Some(id)) |->
           assetId(SelectSeq([j \in 1 .. n |-> j], LAMBDA j : parentOf[j] = Some(id))[k])]
      g == [ModelNode EXCEPT
              !.nodeType = GROUP_NODE, !.id = "g", !.level = 0, !.namespace = "g",
              !.childrenIds = childrenOf("g") \o
                              (IF hParent = Some("g") THEN <<"h">> ELSE <<>>)]
      h == [ModelNode EXCEPT
              !.nodeType = GROUP_NODE, !.id = "h", !.level = 0, !.namespace = "h",
              !.parentId = hParent,
              !.childrenIds = childrenOf("h")]
      nodes == assets \o <<g, h>>
  IN [createEmptyModelGraph EXCEPT
        !.nodes = nodes,
        !.nodesById = [id \in Range([i \in DOMAIN nodes |-> nodes[i].id]) |->
                         CHOOSE i \in DOMAIN nodes : nodes[i].id = id],
        !.rootNodes = SelectSeq([i \in DOMAIN nodes |-> i],
                                LAMBDA i : nodes[i].parentId = Undefined)]

\* A run starts either from an input graph, before processNodes, or from a
\* model graph with a hierarchy, before splitLargeGroupNodes.
ProcessorInit ==
  /\ MODEL_GRAPHS_CACHE = EmptyRecord
  /\ heap = EmptyRecord
  /\ lastEvent = Undefined
  /\ posted = <<>>
  /\ uncaught = Undefined
  /\ collaborator = NotCalled
  /\ preExpand = Undefined
  /\ inbox = <<>>
  /\ running = <<>>
  /\ outbox = <<>>
  /\ delivered = 0
  /\ threshold \in Thresholds
  /\ \/ /\ \E nodes \in DistinctSeqs(ProcessorNodes, MaxNodes) :
            \E upstream \in [{nodes[k].id : k \in DOMAIN nodes} ->
                               DistinctSeqs(UpstreamIds, MaxUpstream)] :
              input = GraphData(nodes, upstream)
        /\ built = createEmptyModelGraph
        /\ phase = "processNodes"
     \/ /\ input = NoInput
        /\ \E n \in 0 .. MaxAssets :
            \E parentOf \in [1 .. n -> Parents], hParent \in {Undefined, Some("g")},
               hidden \in BOOLEAN :
              built = hierarchy(n, parentOf, hParent, hidden)
        /\ phase = "splitLargeGroupNodes"

ProcessNodes ==
  /\ phase = "processNodes"
  /\ built' = processNodes(built, input, FALSE)
  /\ phase' = "processEdgeRelationships"
  /\ UNCHANGED <<input, threshold, preExpand, workerVars, listenerVars>>

ProcessEdgeRelationships ==
  /\ phase = "processEdgeRelationships"
  /\ built' = processEdgeRelationships(built, input)
  /\ phase' = "generateLayoutGraphConnections"
  /\ UNCHANGED <<input, threshold, preExpand, workerVars, listenerVars>>

GenerateLayoutGraphConnections ==
  /\ phase = "generateLayoutGraphConnections"
  /\ \E connected \in {generateLayoutGraphConnections(built)} :
       /\ built' = connected.modelGraph
       /\ phase' = IF connected.threw = Undefined THEN "splitLargeGroupNodes" ELSE "threw"
  /\ UNCHANGED <<input, threshold, preExpand, workerVars, listenerVars>>

SplitLargeGroupNodes ==
  /\ phase = "splitLargeGroupNodes"
  /\ \E split \in {splitLargeGroupNodes(built, threshold)} :
       /\ built' = split.modelGraph
       /\ phase' = IF split.threw = Undefined THEN "populateDescendantsAndCounts"
                   ELSE "threw"
  /\ UNCHANGED <<input, threshold, preExpand, workerVars, listenerVars>>

PopulateDescendantsAndCounts ==
  /\ phase = "populateDescendantsAndCounts"
  /\ built' = populateDescendantsAndCounts(built)
  /\ phase' = "done"
  /\ UNCHANGED <<input, threshold, preExpand, workerVars, listenerVars>>

\* splitLargeGroupNodes run a second time, on the model graph of a finished
\* run.
SplitLargeGroupNodesAgain ==
  /\ phase = "done"
  /\ \E split \in {splitLargeGroupNodes(built, threshold)} :
       /\ built' = split.modelGraph
       /\ phase' = IF split.threw = Undefined THEN "resplit" ELSE "threw"
  /\ UNCHANGED <<input, threshold, preExpand, workerVars, listenerVars>>

\* The ids of the group nodes all of whose ancestors are expanded: the groups
\* a renderer shows, and so the ones it can ask to expand.
visibleGroupNodeIds(modelGraph) ==
  {modelGraph.nodes[i].id : i \in
     {j \in DOMAIN modelGraph.nodes :
        /\ isGroupNode(Some(modelGraph.nodes[j]))
        /\ \/ modelGraph.nodes[j].parentId = Undefined
           \/ LET parent == nodeById(modelGraph, modelGraph.nodes[j].parentId[1])
              IN parent # Undefined /\ parent[1].expanded /\ parent[1].parentId = Undefined}}

\* handleExpandGroupNode(modelGraph, groupNodeId, false) on the model graph of
\* a finished run.
ExpandGroupNode ==
  /\ phase = "done"
  /\ \E groupNodeId \in visibleGroupNodeIds(built) :
       \E handled \in {handleExpandGroupNode(built, Some(groupNodeId), FALSE, FALSE)} :
         /\ built' = handled.modelGraph
         /\ phase' = IF handled.threw = Undefined THEN "expanded" ELSE "threw"
         /\ preExpand' = Some([groupNodeId |-> groupNodeId, modelGraph |-> built])
  /\ UNCHANGED <<input, threshold, workerVars, listenerVars>>

\* handleCollapseGroupNode(modelGraph, groupNodeId, false) for the group
\* that was just expanded.
CollapseGroupNode ==
  /\ phase = "expanded"
  /\ \E handled \in {handleCollapseGroupNode(built, Some(preExpand[1].groupNodeId),
                                              FALSE, FALSE)} :
       /\ built' = handled.modelGraph
       /\ phase' = IF handled.threw = Undefined THEN "collapsed" ELSE "threw"
  /\ UNCHANGED <<input, threshold, preExpand, workerVars, listenerVars>>

ProcessorNext ==
  \/ ProcessNodes
  \/ ProcessEdgeRelationships
  \/ GenerateLayoutGraphConnections
  \/ SplitLargeGroupNodes
  \/ PopulateDescendantsAndCounts
  \/ SplitLargeGroupNodesAgain
  \/ ExpandGroupNode
  \/ CollapseGroupNode

ProcessorSpec == ProcessorInit /\ [][ProcessorNext]_vars


-----------------------------------------------------------------------------
(* The worker's event loop, message by message: a message event waits in   *)
(* inbox until the loop calls the listener with it; the call posts its     *)
(* messages one after the other and returns.                               *)

\* The requests delivered to the event loop: ProcessGraph for graphId "g1",
\* expand and collapse of the group "g" of its model graph, and CLEANUP.
ListenerEvents ==
  {workerEvent \in ProcessGraphRequests :
     workerEvent.graphId = "g1" /\ workerEvent.initialLayout = Some(TRUE)}
    \cup {workerEvent \in ExpandOrCollapseGroupNodeRequests :
            /\ workerEvent.modelGraphId = "<ROOT>"
            /\ workerEvent.rendererId = "g1"
            /\ workerEvent.groupNodeId = Some("g")
            /\ workerEvent.all = Undefined}
    \cup {[eventType |-> CLEANUP]}

\* The listener's switch on workerEvent.eventType.
listener(cache, hp, workerEvent, collaboratorThrows) ==
  CASE workerEvent.eventType = PROCESS_GRAPH_REQ ->
         onProcessGraph(cache, hp, workerEvent, collaboratorThrows)
    [] workerEvent.eventType = EXPAND_OR_COLLAPSE_GROUP_NODE_REQ ->
         onExpandOrCollapseGroupNode(cache, hp, workerEvent, collaboratorThrows)
    [] workerEvent.eventType = RELAYOUT_GRAPH_REQ ->
         onRelayoutGraph(cache, hp, workerEvent, collaboratorThrows)
    [] workerEvent.eventType = CLEANUP -> onCleanup(cache, hp, workerEvent)
    [] OTHER -> onOtherEvent(cache, hp, workerEvent)

\* A message event arrives and is queued.
Deliver ==
  /\ delivered < MaxDelivered
  /\ \E workerEvent \in ListenerEvents :
       inbox' = Append(inbox, [request |-> delivered + 1, workerEvent |-> workerEvent])
  /\ delivered' = delivered + 1
  /\ UNCHANGED <<running, outbox, workerVars, processorVars>>

\* The listener is called with the message event at the head of the queue.
CallListener ==
  /\ inbox # <<>>
  /\ \E collaboratorThrows \in BOOLEAN :
       running' = Append(running,
                         [request |-> Head(inbox).request,
                          workerEvent |-> Head(inbox).workerEvent,
                          result |-> listener(MODEL_GRAPHS_CACHE, heap,
                                              Head(inbox).workerEvent, collaboratorThrows),
                          posted |-> 0])
  /\ inbox' = Tail(inbox)
  /\ UNCHANGED <<outbox, delivered, workerVars, processorVars>>

\* The event loop calls the listener although an earlier call has not
\* returned.
DispatchWhileRunning ==
  CallListener

\* The event loop takes the next message event when no listener call is
\* under way: the listener is a synchronous function.
Dispatch ==
  running = <<>> /\ CallListener

\* A listener call posts its next message, which is not its last.
PostMessage ==
  /\ \E k \in DOMAIN running :
       /\ running[k].posted + 1 < Len(running[k].result.posted)
       /\ outbox' = Append(outbox,
                            [request |-> running[k].request,
                             message |-> running[k].result.posted[running[k].posted + 1]])
       /\ running' = [running EXCEPT ![k].posted = @ + 1]
  /\ UNCHANGED <<inbox, delivered, workerVars, processorVars>>

\* A listener call posts its last message, if it has one left, and returns
\* or throws; the cache is as the call leaves it.
Return ==
  /\ \E k \in DOMAIN running :
       /\ running[k].posted + 1 >= Len(running[k].result.posted)
       /\ outbox' = IF running[k].posted < Len(running[k].result.posted)
                     THEN Append(outbox,
                                 [request |-> running[k].request,
                                  message |-> running[k].result.posted[running[k].posted + 1]])
                     ELSE outbox
       /\ running' = SubSeq(running, 1, k - 1) \o SubSeq(running, k + 1, Len(running))
       /\ lastEvent' = Some(running[k].workerEvent)
       /\ MODEL_GRAPHS_CACHE' = running[k].result.cache
       /\ heap' = running[k].result.heap
       /\ posted' = running[k].result.posted
       /\ uncaught' = running[k].result.uncaught
       /\ collaborator' = running[k].result.collaborator
  /\ UNCHANGED <<inbox, delivered, processorVars>>

ListenerNext ==
  \/ Deliver
  \/ Dispatch
  \/ PostMessage
  \/ Return

ListenerSpec == Init /\ [][ListenerNext]_vars

-----------------------------------------------------------------------------
(* The expand and collapse handlers on a model graph with a hierarchy, one *)
(* request after the other.  built is the model graph the handler is given *)
(* and works on in place, preExpand holds it as it was before the request, *)
(* lastEvent the request, uncaught what the handler threw.                 *)

\* The requests: expand or collapse of the group "g" or "h", all set or not.
HandlerRequests ==
  {workerEvent \in ExpandOrCollapseGroupNodeRequests :
     /\ workerEvent.modelGraphId = "<ROOT>"
     /\ workerEvent.rendererId = "g1"
     /\ workerEvent.groupNodeId \in {Some("g"), Some("h")}}

HandlerInit ==
  /\ MODEL_GRAPHS_CACHE = EmptyRecord
  /\ heap = EmptyRecord
  /\ lastEvent = Undefined
  /\ posted = <<>>
  /\ uncaught = Undefined
  /\ collaborator = NotCalled
  /\ preExpand = Undefined
  /\ inbox = <<>>
  /\ running = <<>>
  /\ outbox = <<>>
  /\ delivered = 0
  /\ threshold = DEFAULT_GROUP_NODE_CHILDREN_COUNT_THRESHOLD
  /\ input = NoInput
  /\ \E n \in 0 .. MaxHandlerAssets :
       \E parentOf \in [1 .. n -> Parents], hParent \in {Undefined, Some("g")},
          hidden \in BOOLEAN :
         built = populateDescendantsAndCounts(hierarchy(n, parentOf, hParent, hidden))
  /\ phase = "handlers"

\* The handler has worked on the model graph with the given result.
HandlerDone(workerEvent, handled) ==
  /\ phase = "handlers"
  /\ lastEvent' = Some(workerEvent)
  /\ preExpand' = Some([groupNodeId |-> workerEvent.groupNodeId[1], modelGraph |-> built])
  /\ built' = handled.modelGraph
  /\ uncaught' = handled.threw
  /\ collaborator' = handled.collaborator
  /\ UNCHANGED <<MODEL_GRAPHS_CACHE, heap, posted, input, phase, threshold, listenerVars>>

HandleExpandGroupNode ==
  \E workerEvent \in HandlerRequests, expanderThrows \in BOOLEAN :
    /\ workerEvent.expand
    /\ HandlerDone(workerEvent,
                   handleExpandGroupNode(built, workerEvent.groupNodeId,
                                         workerEvent.all = Some(TRUE), expanderThrows))

HandleCollapseGroupNode ==
  \E workerEvent \in HandlerRequests, expanderThrows \in BOOLEAN :
    /\ ~workerEvent.expand
    /\ HandlerDone(workerEvent,
                   handleCollapseGroupNode(built, workerEvent.groupNodeId,
                                           workerEvent.all = Some(TRUE), expanderThrows))

HandlerNext ==
  \/ HandleExpandGroupNode
  \/ HandleCollapseGroupNode

HandlerSpec == HandlerInit /\ [][HandlerNext]_vars

-----------------------------------------------------------------------------
(* Properties of the worker (Spec).  The event handled last is             *)
(* lastEvent[1]; in an action formula the event a step handles is          *)
(* lastEvent'[1].                                                          *)

\* The step handles an expand, collapse or relayout request.
LookupStep ==
  lastEvent'[1].eventType \in {EXPAND_OR_COLLAPSE_GROUP_NODE_REQ, RELAYOUT_GRAPH_REQ}

\* The cache key the request handled by the step names.
LookupKey == getModelGraphKey(lastEvent'[1].modelGraphId, lastEvent'[1].rendererId)

\* The types of the responses.
ResponseTypes ==
  {PROCESS_GRAPH_RESP, EXPAND_OR_COLLAPSE_GROUP_NODE_RESP, RELAYOUT_GRAPH_RESP}

\* The responses among the posted messages.
Responses == SelectSeq(posted, LAMBDA m : m.eventType \in ResponseTypes)

\* The progress notifications among the posted messages.
Notifications == SelectSeq(posted, LAMBDA m : m.eventType = UPDATE_PROCESSING_PROGRESS)

\* C1: an expand, collapse or relayout request whose key is not in the cache
\* is rejected with the lookup error: nothing is posted, the cache and every
\* cached model graph stay as they were; and whatever error the previous
\* event ended with, a ProcessGraph request still gets its response and a
\* request on a cached key whose collaborator returns still gets its response.
C1_CacheMissRejected ==
  [][/\ ((LookupStep /\ LookupKey \notin DOMAIN MODEL_GRAPHS_CACHE)
           => (/\ uncaught' = Some(NotFoundError(lastEvent'[1].modelGraphId,
                                                 lastEvent'[1].rendererId))
               /\ posted' = <<>>
               /\ MODEL_GRAPHS_CACHE' = MODEL_GRAPHS_CACHE
               /\ heap' = heap))
      /\ ((uncaught # Undefined /\ lastEvent'[1].eventType = PROCESS_GRAPH_REQ)
           => (/\ uncaught' = Undefined
               /\ posted'[Len(posted')].eventType = PROCESS_GRAPH_RESP))
      /\ ((uncaught # Undefined /\ LookupStep /\ collaborator' = Returned)
           => (/\ uncaught' = Undefined
               /\ Len(posted') = 1
               /\ posted'[1].eventType \in ResponseTypes))]_vars

\* C1 witness: a request was rejected with the lookup error while a graph
\* was cached.
C1_Witness ==
  /\ lastEvent # Undefined
  /\ lastEvent[1].eventType = EXPAND_OR_COLLAPSE_GROUP_NODE_REQ
  /\ uncaught = Some(NotFoundError(lastEvent[1].modelGraphId, lastEvent[1].rendererId))
  /\ MODEL_GRAPHS_CACHE # EmptyRecord
  /\ posted = <<>>

\* C2: after a ProcessGraph request with graph id G has completed, a lookup
\* naming modelGraphId = G and some session id finds the model graph that the
\* response carried.
C2_StoredUnderGraphId ==
  (/\ lastEvent # Undefined
   /\ lastEvent[1].eventType = PROCESS_GRAPH_REQ
   /\ uncaught = Undefined)
    => \E sessionId \in GraphIds :
         LET cached == getCachedModelGraph(MODEL_GRAPHS_CACHE, lastEvent[1].graphId,
                                           sessionId)
         IN /\ cached # Undefined
            /\ heap[cached[1]] = posted[Len(posted)].modelGraph

\* C3: the model graph of every ProcessGraph response has the graph id of
\* the request as its id.
C3_ModelGraphIdIsGraphId ==
  \A i \in DOMAIN posted :
    posted[i].eventType = PROCESS_GRAPH_RESP
      => posted[i].modelGraph.id = lastEvent[1].graphId

\* C4: a Cleanup request empties the cache and posts nothing; and from then
\* on, as long as a key is not in the cache, only a ProcessGraph request can
\* put it there, and every expand, collapse or relayout request naming it
\* fails with the lookup error and posts nothing.
C4_CleanupEmptiesCache ==
  [][/\ (lastEvent'[1].eventType = CLEANUP
           => (/\ MODEL_GRAPHS_CACHE' = EmptyRecord
               /\ heap' = EmptyRecord
               /\ posted' = <<>>
               /\ uncaught' = Undefined))
      /\ \A key \in {getModelGraphKey(k[1], k[2]) : k \in RequestKeys} :
           (key \notin DOMAIN MODEL_GRAPHS_CACHE /\ lastEvent'[1].eventType # PROCESS_GRAPH_REQ)
             => (/\ key \notin DOMAIN MODEL_GRAPHS_CACHE'
                 /\ ((LookupStep /\ LookupKey = key)
                      => (/\ uncaught' = Some(NotFoundError(lastEvent'[1].modelGraphId,
                                                            lastEvent'[1].rendererId))
                          /\ posted' = <<>>)))]_vars

\* C5: a ProcessGraph request posts the four progress notifications, each
\* once, in the order of ALL_PROCESSING_LABELS and with the graph id of the
\* request, and after them its one response.
C5_ProgressInOrder ==
  (lastEvent # Undefined /\ lastEvent[1].eventType = PROCESS_GRAPH_REQ)
    => /\ Len(posted) = Len(ALL_PROCESSING_LABELS) + 1
       /\ \A i \in DOMAIN ALL_PROCESSING_LABELS :
            /\ posted[i].eventType = UPDATE_PROCESSING_PROGRESS
            /\ posted[i].label = ALL_PROCESSING_LABELS[i]
            /\ posted[i].graphId = lastEvent[1].graphId
       /\ posted[Len(posted)].eventType = PROCESS_GRAPH_RESP
       /\ posted[Len(posted)].graphId = lastEvent[1].graphId

\* C5 witness: a ProcessGraph request has been handled and has posted its
\* notifications and its response.
C5_Witness ==
  /\ lastEvent # Undefined
  /\ lastEvent[1].eventType = PROCESS_GRAPH_REQ
  /\ Len(Notifications) = 4
  /\ Len(Responses) = 1

\* C6: when the collaborator throws, the error is reported on a progress
\* notification and the response carrying the model graph is still posted.
C6_CollaboratorFailureReported ==
  collaborator = Threw
    => /\ \E i \in DOMAIN Notifications : Notifications[i].error # Undefined
       /\ Len(Responses) = 1
       /\ uncaught = Undefined

\* The input graph of the ProcessGraph request handled last has a node whose
\* id is the empty string.
HasEmptyId == \E i \in DOMAIN lastEvent[1].graph.nodes : lastEvent[1].graph.nodes[i].id = ""

\* C7: with a node whose id is the empty string the ProcessGraph request is
\* not aborted: the model graph is built, cached and carried by the response,
\* the layout is not called, and the last notification carries a non-empty
\* error; without such a node and without a layout failure that notification
\* carries no error.
C7_EmptyIdIsWarning ==
  (lastEvent # Undefined /\ lastEvent[1].eventType = PROCESS_GRAPH_REQ)
    => LET last == Notifications[Len(Notifications)]
           key == getModelGraphKey("<ROOT>", lastEvent[1].graphId)
       IN /\ last.label = LAYING_OUT_ROOT_LAYER
          /\ (HasEmptyId
               => (/\ uncaught = Undefined
                   /\ collaborator = NotCalled
                   /\ last.error # Undefined
                   /\ last.error[1] # ""
                   /\ Len(Responses) = 1
                   /\ Len(Responses[1].modelGraph.nodes) > 0
                   /\ key \in DOMAIN MODEL_GRAPHS_CACHE
                   /\ heap[MODEL_GRAPHS_CACHE[key]] = Responses[1].modelGraph))
          /\ ((~HasEmptyId /\ collaborator # Threw) => last.error = Undefined)

\* C7 witness: a ProcessGraph request with initialLayout and a node whose id
\* is the empty string has been handled.
C7_Witness ==
  /\ lastEvent # Undefined
  /\ lastEvent[1].eventType = PROCESS_GRAPH_REQ
  /\ lastEvent[1].initialLayout = Some(TRUE)
  /\ HasEmptyId
  /\ Len(Responses) = 1

\* C8: an event of any other type than the four request types posts
\* nothing, raises no error and leaves the cache and the cached model graphs
\* as they were.
C8_OtherEventsIgnored ==
  [][lastEvent'[1].eventType \notin
       {PROCESS_GRAPH_REQ, EXPAND_OR_COLLAPSE_GROUP_NODE_REQ, RELAYOUT_GRAPH_REQ, CLEANUP}
       => /\ posted' = <<>>
          /\ uncaught' = Undefined
          /\ MODEL_GRAPHS_CACHE' = MODEL_GRAPHS_CACHE
          /\ heap' = heap]_vars

\* C8 witness: an event of another type has been handled while graphs were
\* cached.
C8_Witness ==
  /\ lastEvent # Undefined
  /\ lastEvent[1].eventType \in OtherEventTypes
  /\ Cardinality(DOMAIN MODEL_GRAPHS_CACHE) = 2

\* C9: every response carries the identifiers of the request that caused it.
C9_ResponsesCarryRequestIds ==
  \A i \in DOMAIN posted :
    LET resp == posted[i]
        req == lastEvent[1]
    IN /\ (resp.eventType = PROCESS_GRAPH_RESP
            => (/\ req.eventType = PROCESS_GRAPH_REQ
                /\ resp.graphId = req.graphId))
       /\ (resp.eventType = EXPAND_OR_COLLAPSE_GROUP_NODE_RESP
            => (/\ req.eventType = EXPAND_OR_COLLAPSE_GROUP_NODE_REQ
                /\ resp.rendererId = req.rendererId
                /\ resp.groupNodeId = req.groupNodeId
                /\ resp.expanded = req.expand))
       /\ (resp.eventType = RELAYOUT_GRAPH_RESP
            => (/\ req.eventType = RELAYOUT_GRAPH_REQ
                /\ resp.rendererId = req.rendererId
                /\ resp.selectedNodeId = req.selectedNodeId
                /\ resp.targetDeepestGroupNodeIdsToExpand =
                     req.targetDeepestGroupNodeIdsToExpand
                /\ resp.forRestoringUiState = req.forRestoringUiState
                /\ resp.rectToZoomFit = req.rectToZoomFit
                /\ resp.forRestoringSnapshotAfterTogglingFlattenLayers =
                     req.forRestoringSnapshotAfterTogglingFlattenLayers))

\* C9 witness: a relayout request whose modelGraphId and rendererId differ
\* has been answered.
C9_Witness ==
  /\ lastEvent # Undefined
  /\ lastEvent[1].eventType = RELAYOUT_GRAPH_REQ
  /\ lastEvent[1].modelGraphId # lastEvent[1].rendererId
  /\ Len(Responses) = 1
  /\ Responses[1].eventType = RELAYOUT_GRAPH_RESP

-----------------------------------------------------------------------------
(* Properties of one GraphProcessor run (ProcessorSpec). *)

\* Some node with the id `from` stores an outgoing edge to the id `to`.
HasOutgoingEdge(modelGraph, from, to) ==
  \E i \in DOMAIN modelGraph.nodes :
    /\ modelGraph.nodes[i].id = from
    /\ Edge(from, to) \in Range(modelGraph.nodes[i].outgoingEdges)

\* Some node with the id `to` stores an incoming edge from the id `from`.
HasIncomingEdge(modelGraph, from, to) ==
  \E i \in DOMAIN modelGraph.nodes :
    /\ modelGraph.nodes[i].id = to
    /\ Edge(from, to) \in Range(modelGraph.nodes[i].incomingEdges)

\* The ids that nodes or edges of the model graph name.
IdsOf(modelGraph) ==
  {modelGraph.nodes[i].id : i \in DOMAIN modelGraph.nodes} \cup
  UNION {{e.sourceNodeId, e.targetNodeId} :
           e \in UNION {Range(modelGraph.nodes[i].incomingEdges) \cup
                        Range(modelGraph.nodes[i].outgoingEdges) :
                          i \in DOMAIN modelGraph.nodes}}

\* C10: edge symmetry: in the model graph built from any input graph, A has
\* an outgoing edge to B if and only if B has an incoming edge from A, and
\* every stored edge names the node that stores it.
C10_EdgeSymmetry ==
  phase \notin {"processNodes", "processEdgeRelationships"}
    => /\ \A from \in IdsOf(built), to \in IdsOf(built) :
            HasOutgoingEdge(built, from, to) <=> HasIncomingEdge(built, from, to)
       /\ \A i \in DOMAIN built.nodes :
            /\ \A e \in Range(built.nodes[i].outgoingEdges) :
                 e.sourceNodeId = built.nodes[i].id
            /\ \A e \in Range(built.nodes[i].incomingEdges) :
                 e.targetNodeId = built.nodes[i].id

\* C10 witness: a model graph was built from an input graph with a
\* self-reference, a reference to an absent node and a cycle.
C10_Witness ==
  /\ phase = "done"
  /\ \E id \in DOMAIN input.upstream : "zz" \in Range(input.upstream[id])
  /\ HasOutgoingEdge(built, "a", "a")
  /\ HasOutgoingEdge(built, "a", "g")
  /\ HasOutgoingEdge(built, "g", "a")

\* The run has not thrown: the model graph is the result of whole phases.
NotThrown == phase # "threw"

\* C11: id uniqueness: in every model graph, after building and after
\* partitioning, no two nodes of the node list share an id, the keys of
\* nodesById are exactly the ids of the nodes of the list, each key maps to
\* the node with that id, and every section group is listed in
\* artificialGroupNodeIds.
C11_IdUniqueness ==
  NotThrown
    => /\ \A i \in DOMAIN built.nodes, j \in DOMAIN built.nodes :
            i # j => built.nodes[i].id # built.nodes[j].id
       /\ DOMAIN built.nodesById = {built.nodes[i].id : i \in DOMAIN built.nodes}
       /\ \A id \in DOMAIN built.nodesById : built.nodes[built.nodesById[id]].id = id
       /\ \A i \in DOMAIN built.nodes :
            built.nodes[i].sectionContainer
              => built.nodes[i].id \in Range(built.artificialGroupNodeIds)

\* splitLargeGroupNodes has just run on the model graph.
Partitioned == phase = "populateDescendantsAndCounts"

\* C12: partitioning bound: after splitLargeGroupNodes has run with the
\* threshold T, the root scope and every group node have at most T direct
\* children, and every section has at least one and at most T members.
C12_PartitioningBound ==
  Partitioned
    => /\ Len(built.rootNodes) <= threshold
       /\ \A i \in DOMAIN built.nodes :
            /\ (isGroupNode(Some(built.nodes[i]))
                  => Len(built.nodes[i].childrenIds) <= threshold)
            /\ (built.nodes[i].sectionContainer
                  => Len(built.nodes[i].childrenIds) \in 1 .. threshold)

\* The step is the second run of splitLargeGroupNodes.
ResplitStep == phase = "done" /\ phase' # "expanded" /\ preExpand' = preExpand

\* C13: idempotent re-split: a second run of splitLargeGroupNodes, with the
\* same threshold, on the model graph of its first run splits nothing and
\* leaves the nodes, the index, the root list and the artificial-id list as
\* they were.
C13_IdempotentResplit ==
  [][ResplitStep
       => /\ phase' = "resplit"
          /\ built'.nodes = built.nodes
          /\ built'.nodesById = built.nodesById
          /\ built'.rootNodes = built.rootNodes
          /\ built'.artificialGroupNodeIds = built.artificialGroupNodeIds]_vars

\* The input graph has nodes, all of one group, and no edges.
OneGroupNoEdges ==
  /\ input.nodes # <<>>
  /\ \A k \in DOMAIN input.nodes :
       groupIdForNode(input.nodes[k]) = groupIdForNode(input.nodes[1])
  /\ \A id \in DOMAIN input.upstream : input.upstream[id] = <<>>

\* The section groups of the model graph, in the order of the node list.
SectionsOf(modelGraph) ==
  SelectSeq([i \in DOMAIN modelGraph.nodes |-> i],
            LAMBDA i : modelGraph.nodes[i].sectionContainer)

\* C14: process() on n asset nodes of one group g without edges, with a
\* threshold T < n, makes ceil(n/T) sections below g, the first floor(n/T)
\* with T members and a last one with the remainder, each listed in
\* artificialGroupNodeIds, and the childrenIds of g are the section ids.
C14_SectionsOfOneGroup ==
  (phase = "done" /\ OneGroupNoEdges /\ threshold < Len(input.nodes))
    => LET n == Len(input.nodes)
           g == nodeById(built, groupIdForNode(input.nodes[1]))
           sections == SectionsOf(built)
       IN /\ Len(sections) = (n + threshold - 1) \div threshold
          /\ \A k \in DOMAIN sections :
               /\ Len(built.nodes[sections[k]].childrenIds) =
                    (IF k <= n \div threshold THEN threshold ELSE n % threshold)
               /\ built.nodes[sections[k]].id \in Range(built.artificialGroupNodeIds)
               /\ built.nodes[sections[k]].parentId = Some(groupIdForNode(input.nodes[1]))
          /\ isGroupNode(g)
          /\ g[1].childrenIds = [k \in DOMAIN sections |-> built.nodes[sections[k]].id]

\* The ids among childrenIds that name a group node or an asset node that is
\* not hidden from layout.
ListedChildren(modelGraph, childrenIds) ==
  {id \in Range(childrenIds) :
     LET child == nodeById(modelGraph, id)
     IN isGroupNode(child) \/ (isAssetNode(child) /\ ~child[1].hideInLayout)}

\* The ids reachable from the ids of S through childrenIds in at most n steps.
RECURSIVE ReachableFrom(_, _, _)
ReachableFrom(modelGraph, S, n) ==
  IF n = 0 THEN S
  ELSE ReachableFrom(
         modelGraph,
         S \cup UNION {ListedChildren(modelGraph,
                                      modelGraph.nodes[modelGraph.nodesById[id]].childrenIds) :
                         id \in {x \in S : isGroupNode(nodeById(modelGraph, x))}},
         n - 1)

\* The group nodes of the model graph.
GroupsOf(modelGraph) ==
  {i \in DOMAIN modelGraph.nodes : isGroupNode(Some(modelGraph.nodes[i]))}

\* C15: descendant consistency: after populateDescendantsAndCounts, for
\* every group node descendantsAssetNodeIds is a subset of descendantsNodeIds,
\* descendantsNodeIds are exactly the group nodes and the asset nodes not
\* hidden from layout that childrenIds reach at any depth, and the number of
\* descendantsAssetNodeIds lies between minDescendantAssetNodeCount and
\* maxDescendantAssetNodeCount, each of which some group node attains.
C15_DescendantConsistency ==
  phase = "done"
    => \A i \in GroupsOf(built) :
         /\ Range(built.nodes[i].descendantsAssetNodeIds) \subseteq
              Range(built.nodes[i].descendantsNodeIds)
         /\ Range(built.nodes[i].descendantsNodeIds) =
              ReachableFrom(built, ListedChildren(built, built.nodes[i].childrenIds),
                            Len(built.nodes))
         /\ Range(built.nodes[i].descendantsAssetNodeIds) =
              {id \in Range(built.nodes[i].descendantsNodeIds) :
                 isAssetNode(nodeById(built, id))}
         /\ Len(built.nodes[i].descendantsAssetNodeIds) >= built.minDescendantAssetNodeCount
         /\ Len(built.nodes[i].descendantsAssetNodeIds) <= built.maxDescendantAssetNodeCount
         /\ \E j \in GroupsOf(built) :
              Len(built.nodes[j].descendantsAssetNodeIds) = built.minDescendantAssetNodeCount
         /\ \E j \in GroupsOf(built) :
              Len(built.nodes[j].descendantsAssetNodeIds) = built.maxDescendantAssetNodeCount

\* C15 witness: descendants were gathered for a group that has a group
\* child with children of its own and an asset child hidden from layout,
\* in a graph whose groups differ in their counts.
C15_Witness ==
  /\ phase = "done"
  /\ built.minDescendantAssetNodeCount > 0
  /\ built.minDescendantAssetNodeCount < built.maxDescendantAssetNodeCount
  /\ \E i \in GroupsOf(built) :
       /\ Len(built.nodes[i].descendantsNodeIds) > Len(built.nodes[i].childrenIds)
       /\ \E id \in Range(built.nodes[i].childrenIds) :
            isAssetNode(nodeById(built, id)) /\ nodeById(built, id)[1].hideInLayout

\* C16: expand/collapse round trip: after handleExpandGroupNode(G, all =
\* false) followed by handleCollapseGroupNode(G, all = false) every group
\* node has the expanded flag it had before the expand, also when G heads a
\* chain of single-child groups.
C16_ExpandCollapseRoundTrip ==
  phase = "collapsed"
    => \A i \in GroupsOf(built) :
         built.nodes[i].expanded = preExpand[1].modelGraph.nodes[i].expanded

\* The nodes of the model graph that have no parentId.
Parentless(modelGraph) ==
  {i \in DOMAIN modelGraph.nodes : modelGraph.nodes[i].parentId = Undefined}

\* C17: after the ProcessGraph pipeline and after any later expand, collapse
\* or relayout, rootNodes of every cached model graph is exactly the set of
\* its nodes without a parentId.
C17_RootNodesAreParentless ==
  \A key \in DOMAIN MODEL_GRAPHS_CACHE :
    Range(heap[MODEL_GRAPHS_CACHE[key]].rootNodes) =
      Parentless(heap[MODEL_GRAPHS_CACHE[key]])

\* The asset nodes of the model graph.
AssetsOf(modelGraph) ==
  {i \in DOMAIN modelGraph.nodes : isAssetNode(Some(modelGraph.nodes[i]))}

\* The model graph has one asset node per input node and one group node per
\* group id of the input.
BuiltFromInput ==
  LET groupIds == {groupIdForNode(input.nodes[k]) : k \in DOMAIN input.nodes}
  IN /\ Cardinality(AssetsOf(built)) = Len(input.nodes)
     /\ \A k \in DOMAIN input.nodes :
          /\ Cardinality({i \in AssetsOf(built) :
                            built.nodes[i].id = input.nodes[k].id}) = 1
          /\ \A i \in AssetsOf(built) :
               built.nodes[i].id = input.nodes[k].id
                 => /\ built.nodes[i].namespace =
                         groupIdForNode(input.nodes[k]) \o "/" \o input.nodes[k].id
                    /\ built.nodes[i].level = 1
     /\ Cardinality(GroupsOf(built)) = Cardinality(groupIds)
     /\ \A id \in groupIds :
          /\ Cardinality({i \in GroupsOf(built) : built.nodes[i].id = id}) = 1
          /\ \A i \in GroupsOf(built) :
               built.nodes[i].id = id
                 => /\ built.nodes[i].namespace = id
                    /\ built.nodes[i].level = 0
                    /\ built.nodes[i].expanded = FALSE

\* Neither the root scope nor a group has more children than the threshold.
NoScopeOverThreshold ==
  /\ Len(built.rootNodes) <= threshold
  /\ \A i \in GroupsOf(built) : Len(built.nodes[i].childrenIds) <= threshold

\* The step creates no section and changes no id, namespace or parent link.
Unsplit ==
  /\ phase' # "threw"
  /\ built'.artificialGroupNodeIds = <<>>
  /\ built'.nodesById = built.nodesById
  /\ built'.rootNodes = built.rootNodes
  /\ Len(built'.nodes) = Len(built.nodes)
  /\ \A i \in DOMAIN built.nodes :
       /\ built'.nodes[i].id = built.nodes[i].id
       /\ built'.nodes[i].namespace = built.nodes[i].namespace
       /\ built'.nodes[i].parentId = built.nodes[i].parentId
       /\ built'.nodes[i].childrenIds = built.nodes[i].childrenIds
       /\ ~built'.nodes[i].sectionContainer

\* C18: processNodes creates exactly one asset node per input node
\* (namespace "<group>/<nodeId>", level 1) and exactly one group node per
\* distinct group id (id = namespace = the group id, level 0, not expanded),
\* and splitLargeGroupNodes on a graph none of whose scopes has more children
\* than the threshold creates no section and changes no id, namespace or
\* parent link.
C18_BuilderAndNoSplit ==
  [][/\ (phase = "processNodes" => BuiltFromInput')
     /\ ((phase = "splitLargeGroupNodes" /\ NoScopeOverThreshold) => Unsplit)]_vars

\* C18 witness: splitLargeGroupNodes has run on the graph processNodes built
\* from two nodes of one group and one node of another, and no scope was
\* over the threshold.
C18_Witness ==
  /\ phase = "populateDescendantsAndCounts"
  /\ Len(input.nodes) >= 2
  /\ Cardinality({groupIdForNode(input.nodes[k]) : k \in DOMAIN input.nodes}) = 2
  /\ BuiltFromInput
  /\ NoScopeOverThreshold
  /\ built.artificialGroupNodeIds = <<>>

\* The edges stored on node i of the model graph.
EdgesOn(modelGraph, i) ==
  Range(modelGraph.nodes[i].incomingEdges) \cup Range(modelGraph.nodes[i].outgoingEdges)

\* C19: in every built model graph every stored edge relates two asset nodes
\* that are both in nodesById, and only asset nodes store edges: an upstream
\* reference to an id that is not in the index makes no edge and no error,
\* and none attaches an edge to a group node.
C19_EdgesBetweenAssetNodes ==
  \A i \in DOMAIN built.nodes :
    /\ (EdgesOn(built, i) # {} => isAssetNode(Some(built.nodes[i])))
    /\ \A edge \in EdgesOn(built, i) :
         /\ isAssetNode(nodeById(built, edge.sourceNodeId))
         /\ isAssetNode(nodeById(built, edge.targetNodeId))

\* C20: requests are processed one at a time to completion: the messages
\* posted for one request all come before the messages posted for a later
\* request, and no listener call starts while another has not returned, so
\* none sees the cache as another call has half left it.
C20_OneRequestAtATime ==
  /\ Len(running) <= 1
  /\ \A i, j \in DOMAIN outbox : i < j => outbox[i].request <= outbox[j].request
  /\ \A k \in DOMAIN running :
       \A i \in DOMAIN inbox : running[k].request < inbox[i].request

\* C20 witness: a second request was delivered while the listener was
\* working on the first and had posted part of its messages; its own
\* messages followed those of the first.
C20_Witness ==
  /\ \E i, j \in DOMAIN outbox : outbox[i].request < outbox[j].request
  /\ running # <<>>
  /\ running[1].posted > 0
  /\ inbox # <<>>

\* B is recorded in layoutGraphEdges as a successor of A, in some scope.
RecordedSuccessor(modelGraph, A, B) ==
  \E scope \in DOMAIN modelGraph.layoutGraphEdges :
    /\ A \in DOMAIN modelGraph.layoutGraphEdges[scope]
    /\ B \in Range(modelGraph.layoutGraphEdges[scope][A])

\* C21: after generateLayoutGraphConnections, for every asset node A that is
\* not hidden and that the traversal reaches from its roots, and every
\* outgoing edge of A to a node B that is not hidden, layoutGraphEdges records
\* B as a successor of A.
C21_ForwardConnectivityRecorded ==
  (phase = "splitLargeGroupNodes" /\ input # NoInput)
    => \A i \in AssetsOf(built) :
         (~built.nodes[i].hideInLayout /\ built.nodes[i].id \in Range(seenNodeIdsOf(built)))
           => \A edge \in Range(built.nodes[i].outgoingEdges) :
                LET target == nodeById(built, edge.targetNodeId)
                IN (target # Undefined /\ ~target[1].hideInLayout)
                     => RecordedSuccessor(built, built.nodes[i].id, edge.targetNodeId)

\* C22: after splitLargeGroupNodes parent and child links agree everywhere:
\* every id in the childrenIds of a group P is in nodesById, under a node of
\* that id whose parentId is the id of P; every node whose parentId is the id
\* of P is listed in the childrenIds of P; and no key of nodesById is a stale
\* id of the node it leads to.
C22_ParentChildLinksAgree ==
  phase = "populateDescendantsAndCounts"
    => /\ \A key \in DOMAIN built.nodesById : built.nodes[built.nodesById[key]].id = key
       /\ \A p \in GroupsOf(built) :
            /\ \A id \in Range(built.nodes[p].childrenIds) :
                 /\ nodeRef(built, id) # Undefined
                 /\ nodeById(built, id)[1].id = id
                 /\ nodeById(built, id)[1].parentId = Some(built.nodes[p].id)
            /\ \A i \in DOMAIN built.nodes :
                 built.nodes[i].parentId = Some(built.nodes[p].id)
                   => built.nodes[i].id \in Range(built.nodes[p].childrenIds)

\* The handler has just handed the model graph to the collaborator, whose
\* call threw: built is the graph as the handler itself left it.
Delegated == phase = "handlers" /\ lastEvent # Undefined /\ collaborator = Threw

\* The group the request in lastEvent names, in the model graph before it.
RequestedGroup == preExpand[1].modelGraph.nodesById[preExpand[1].groupNodeId]

\* The groups of the maximal chain that starts at group i in which each group
\* has exactly one child, a group; n bounds its length.
RECURSIVE SingleChildChain(_, _, _)
SingleChildChain(modelGraph, i, n) ==
  LET childrenIds == modelGraph.nodes[i].childrenIds
  IN IF n > 0 /\ Len(childrenIds) = 1 /\ isGroupNode(nodeById(modelGraph, childrenIds[1]))
     THEN <<i>> \o SingleChildChain(modelGraph, modelGraph.nodesById[childrenIds[1]], n - 1)
     ELSE <<i>>

\* C23: handleExpandGroupNode for the group G with all = false sets expanded
\* on G and on every group of the chain of single-child groups that starts at
\* G, changes the expanded flag of no other group, and clears width and
\* height of every node in descendantsNodeIds of the last group of the chain.
C23_ExpandSetsChain ==
  (Delegated /\ lastEvent[1].expand /\ lastEvent[1].all = Undefined)
    => LET before == preExpand[1].modelGraph
           chain == SingleChildChain(before, RequestedGroup, Len(before.nodes))
           last == chain[Len(chain)]
       IN /\ \A i \in GroupsOf(before) :
               built.nodes[i].expanded = (i \in Range(chain) \/ before.nodes[i].expanded)
          /\ \A id \in Range(before.nodes[last].descendantsNodeIds) :
               /\ nodeById(built, id)[1].width = Undefined
               /\ nodeById(built, id)[1].height = Undefined

\* C23 witness: the group expanded heads a chain of two groups; the second
\* was collapsed and had a descendant with a size from an earlier layout.
C23_Witness ==
  /\ Delegated
  /\ lastEvent[1].expand
  /\ lastEvent[1].all = Undefined
  /\ LET before == preExpand[1].modelGraph
         chain == SingleChildChain(before, RequestedGroup, Len(before.nodes))
     IN /\ Len(chain) = 2
        /\ ~before.nodes[chain[2]].expanded
        /\ \E id \in Range(before.nodes[chain[2]].descendantsNodeIds) :
             nodeById(before, id)[1].width # Undefined

\* C24: handleCollapseGroupNode for the group G with all = true hands the
\* collaborator a graph in which every group node of G's descendantsNodeIds
\* is collapsed, has no width and no height and has no entry in
\* edgesByGroupNodeIds; with all = false the handler itself changes nothing.
C24_CollapseClearsDescendants ==
  (Delegated /\ ~lastEvent[1].expand)
    => LET before == preExpand[1].modelGraph
       IN IF lastEvent[1].all = Some(TRUE)
          THEN \A id \in Range(before.nodes[RequestedGroup].descendantsNodeIds) :
                 isGroupNode(nodeById(before, id))
                   => /\ ~nodeById(built, id)[1].expanded
                      /\ nodeById(built, id)[1].width = Undefined
                      /\ nodeById(built, id)[1].height = Undefined
                      /\ id \notin DOMAIN built.edgesByGroupNodeIds
          ELSE built = before

\* C24 witness: the group collapsed with all = true had an expanded group
\* among its descendants, with a size and an edge list from an earlier
\* layout.
C24_Witness ==
  /\ Delegated
  /\ ~lastEvent[1].expand
  /\ lastEvent[1].all = Some(TRUE)
  /\ LET before == preExpand[1].modelGraph
     IN \E id \in Range(before.nodes[RequestedGroup].descendantsNodeIds) :
          /\ isGroupNode(nodeById(before, id))
          /\ nodeById(before, id)[1].expanded
          /\ nodeById(before, id)[1].width # Undefined
          /\ id \in DOMAIN before.edgesByGroupNodeIds

\* The structure of a model graph: the nodes' ids, parent and child links and
\* edges, the index, the root-node list and the artificial-id list.
Structure(modelGraph) ==
  [nodes |-> [i \in DOMAIN modelGraph.nodes |->
                [id |-> modelGraph.nodes[i].id,
                 parentId |-> modelGraph.nodes[i].parentId,
                 childrenIds |-> modelGraph.nodes[i].childrenIds,
                 incomingEdges |-> modelGraph.nodes[i].incomingEdges,
                 outgoingEdges |-> modelGraph.nodes[i].outgoingEdges]],
   nodesById |-> modelGraph.nodesById,
   rootNodes |-> modelGraph.rootNodes,
   artificialGroupNodeIds |-> modelGraph.artificialGroupNodeIds]

-----------------------------------------------------------------------------
(* splitLargeGroupNodes on a model graph with a hierarchy whose            *)
(* layoutGraphEdges hold edges between the children of a scope             *)
(* (ModelGraph.ts: "a map from the id of a group to the edges of its       *)
(* children nodes"), so that the DFS of the partitioner follows edges.     *)

\* The most asset nodes of such a model graph.
MaxPartitionAssets == 3

\* How the children of a scope are connected: not at all, each to the next
\* one, or each to the next one and the last to the first.
Connections == {"none", "chain", "ring"}

\* The edges (fromNodeId -> targetNodeIds) between the children ids of a
\* scope.
layoutEdgesOf(ids, connection) ==
  IF Len(ids) < 2 THEN EmptyRecord
  ELSE [from \in {ids[k] : k \in 1 .. (IF connection = "ring" THEN Len(ids)
                                        ELSE Len(ids) - 1)} |->
          <<ids[((CHOOSE k \in DOMAIN ids : ids[k] = from) % Len(ids)) + 1]>>]

\* The model graph with the children of the root scope and of the group "g"
\* connected in layoutGraphEdges.
connected(modelGraph, connection) ==
  IF connection = "none" THEN modelGraph
  ELSE [modelGraph EXCEPT
          !.layoutGraphEdges =
             [scope \in {"", "g"} |->
                layoutEdgesOf(IF scope = ""
                              THEN [k \in DOMAIN modelGraph.rootNodes |->
                                      modelGraph.nodes[modelGraph.rootNodes[k]].id]
                              ELSE modelGraph.nodes[modelGraph.nodesById["g"]].childrenIds,
                              connection)]]

PartitionerInit ==
  /\ MODEL_GRAPHS_CACHE = EmptyRecord
  /\ heap = EmptyRecord
  /\ lastEvent = Undefined
  /\ posted = <<>>
  /\ uncaught = Undefined
  /\ collaborator = NotCalled
  /\ preExpand = Undefined
  /\ inbox = <<>>
  /\ running = <<>>
  /\ outbox = <<>>
  /\ delivered = 0
  /\ threshold \in Thresholds
  /\ input = NoInput
  /\ \E n \in 0 .. MaxPartitionAssets :
       \E parentOf \in [1 .. n -> Parents], hParent \in {Undefined, Some("g")},
          connection \in Connections :
         built = connected(hierarchy(n, parentOf, hParent, FALSE), connection)
  /\ phase = "partitioner"

\* splitLargeGroupNodes(modelGraph).
PartitionScopes ==
  /\ phase = "partitioner"
  /\ \E split \in {splitLargeGroupNodes(built, threshold)} :
       /\ built' = split.modelGraph
       /\ phase' = IF split.threw = Undefined THEN "partitioned" ELSE "threw"
  /\ UNCHANGED <<input, threshold, preExpand, workerVars, listenerVars>>

\* populateDescendantsAndCounts(modelGraph) after the split.
AggregatePartitioned ==
  /\ phase = "partitioned"
  /\ built' = populateDescendantsAndCounts(built)
  /\ phase' = "aggregated"
  /\ UNCHANGED <<input, threshold, preExpand, workerVars, listenerVars>>

PartitionerNext ==
  \/ PartitionScopes
  \/ AggregatePartitioned

PartitionerSpec == PartitionerInit /\ [][PartitionerNext]_vars

\* The ids of the asset nodes that childrenIds, resolved through nodesById,
\* reach from the ids of S in at most n steps.
RECURSIVE Below(_, _, _)
Below(modelGraph, S, n) ==
  IF n = 0 THEN {id \in S : isAssetNode(nodeById(modelGraph, id))}
  ELSE Below(modelGraph,
             S \cup UNION {Range(nodeById(modelGraph, id)[1].childrenIds) :
                             id \in {x \in S : isGroupNode(nodeById(modelGraph, x))}},
             n - 1)

\* The number of places in the childrenIds of the sections the step creates
\* below the scope (an optional node object; undefined is the root scope)
\* that hold the id the node object `child` has after the step.
SectionPlaces(scope, child) ==
  Cardinality({p \in (Len(built.nodes) + 1 .. Len(built'.nodes)) \X (1 .. Len(built.nodes)) :
                 /\ built'.nodes[p[1]].sectionContainer
                 /\ built'.nodes[p[1]].parentId =
                      (IF scope = Undefined THEN Undefined
                       ELSE Some(built'.nodes[scope[1]].id))
                 /\ p[2] \in DOMAIN built'.nodes[p[1]].childrenIds
                 /\ built'.nodes[p[1]].childrenIds[p[2]] = built'.nodes[child].id})

\* Every former direct child of a scope the step splits is, after the step,
\* at exactly one place of the sections of that scope.
EveryChildInOneSection ==
  /\ Len(built.rootNodes) > threshold
       => \A k \in DOMAIN built.rootNodes :
            SectionPlaces(Undefined, built.rootNodes[k]) = 1
  /\ \A i \in GroupsOf(built) :
       Len(built.nodes[i].childrenIds) > threshold
         => \A k \in DOMAIN built.nodes[i].childrenIds :
              SectionPlaces(Some(i), built.nodesById[built.nodes[i].childrenIds[k]]) = 1

\* The asset nodes below each group are the same before and after the step.
SameAssetsBelow ==
  \A i \in GroupsOf(built) :
    Below(built', {built'.nodes[i].id}, Len(built'.nodes)) =
      Below(built, {built.nodes[i].id}, Len(built.nodes))

\* C26: splitting preserves membership: every former direct child of a
\* split scope is a member of exactly one new section of that scope, also
\* when the edges between the children form a cycle, and the set of asset
\* nodes below each group is the same before and after the split.
C26_SplitPreservesMembership ==
  [][(phase = "partitioner" /\ phase' = "partitioned")
       => (EveryChildInOneSection /\ SameAssetsBelow)]_vars


\* C27: every expand or collapse request whose key is cached is answered by
\* exactly one expand/collapse response, whatever groupNodeId it names (a
\* group, an asset node, an id the graph does not have, or none) and whatever
\* `all` is: the handler does not fail on a groupNodeId that is not a group
\* node.  Steps in which the collaborator itself throws are left aside.
C27_CachedRequestAnswered ==
  [][(/\ lastEvent'[1].eventType = EXPAND_OR_COLLAPSE_GROUP_NODE_REQ
      /\ LookupKey \in DOMAIN MODEL_GRAPHS_CACHE
      /\ collaborator' # Threw)
       => (/\ uncaught' = Undefined
           /\ Len(posted') = 1
           /\ posted'[1].eventType = EXPAND_OR_COLLAPSE_GROUP_NODE_RESP)]_vars


\* C28: only ProcessGraph adds cache keys and only Cleanup removes them: an
\* expand, collapse or relayout request that succeeds stores the graph under
\* the key it was looked up with and leaves the key set of the cache as it
\* was, also for ids that contain the separator '___'; and two different
\* pairs (modelGraphId, rendererId) never find the same cache entry.
C28_KeySetChangesOnlyByProcessAndCleanup ==
  [][/\ (DOMAIN MODEL_GRAPHS_CACHE' \ DOMAIN MODEL_GRAPHS_CACHE # {}
           => lastEvent'[1].eventType = PROCESS_GRAPH_REQ)
      /\ (DOMAIN MODEL_GRAPHS_CACHE \ DOMAIN MODEL_GRAPHS_CACHE' # {}
           => lastEvent'[1].eventType = CLEANUP)
      /\ ((LookupStep /\ uncaught' = Undefined)
           => /\ DOMAIN MODEL_GRAPHS_CACHE' = DOMAIN MODEL_GRAPHS_CACHE
              /\ MODEL_GRAPHS_CACHE'[LookupKey] \in DOMAIN heap'
              /\ posted'[1].modelGraph = heap'[MODEL_GRAPHS_CACHE'[LookupKey]])
      /\ \A p, q \in RequestKeys :
           (/\ p # q
            /\ getCachedModelGraph(MODEL_GRAPHS_CACHE', p[1], p[2]) # Undefined
            /\ getCachedModelGraph(MODEL_GRAPHS_CACHE', q[1], q[2]) # Undefined)
             => getModelGraphKey(p[1], p[2]) # getModelGraphKey(q[1], q[2])]_vars

=============================================================================
